---- MODULE Spec2Model ----
(***************************************************************************)
(* Stack relationship engine of the worktree CLI: the explicit stack store *)
(* (StackManager, git config keys) and the sync engine (SyncManager) over  *)
(* an abstract git repository (commit graph, branch refs, checked-out      *)
(* branch, working tree status, rebase/merge in progress).                 *)
(***************************************************************************)
EXTENDS Integers, Sequences, FiniteSets, TLC

VARIABLES heads, current, dirty, wip, config, nUser, op

vars == <<heads, current, dirty, wip, config, nUser, op>>

\* ------------------------------------------------------------------ bounds
\* Total number of commits the user makes on branches in one behaviour.
MaxUserCommits == 2

\* Total number of commits the user makes while the stack store is exercised.
MaxManagerCommits == 1

\* ------------------------------------------------------------ name spaces
\* Names: the branches the user works on.  DottedNames: a branch whose name
\* holds a dot (git allows it).  TrunkNames: a second branch with a common
\* trunk name.  AllNames: every branch of the repository.
Names == {"main", "a", "b"}
DottedNames == {"fix.1"}
TrunkNames == {"dev"}
AllNames == Names \cup DottedNames \cup TrunkNames
StackNames == {"s", "t"}
Times == {"t1"}

\* A commit is <<label, set of parent commits>>: its identity is its content
\* and history, as a git hash is.  NoCommit stands for "no such object": an
\* unresolvable ref, or the empty string stored as a base commit.
NoCommit == <<"", {}>>
RootCommit == <<"r", {}>>

RECURSIVE Anc(_)
Anc(c) == IF c = NoCommit THEN {} ELSE {c} \cup UNION {Anc(p) : p \in c[2]}

RECURSIVE Depth(_)
Depth(c) ==
  IF c = NoCommit THEN 0
  ELSE IF c[2] = {} THEN 1
  ELSE 1 + (CHOOSE d \in {Depth(p) : p \in c[2]} :
              \A e \in {Depth(p) : p \in c[2]} : e <= d)

\* ---------------------------------------------------------------- the world
\* The mutable state the operations act on, passed around as one record.
World == [heads |-> heads, current |-> current, dirty |-> dirty,
          wip |-> wip, config |-> config]

NoWip == [kind |-> "none", branch |-> "", onto |-> NoCommit, lines |-> <<>>]

EmptyConfig ==
  [trunk |-> [s \in StackNames |-> ""],
   root |-> [s \in StackNames |-> ""],
   created |-> [s \in StackNames |-> ""],
   stackname |-> [b \in AllNames |-> ""],
   stackparent |-> [b \in AllNames |-> ""],
   stackbase |-> [b \in AllNames |-> NoCommit]]

Idle == [name |-> "idle"]

\* ------------------------------------------------------------ git queries
Range(q) == {q[i] : i \in 1..Len(q)}

\* git rev-parse <ref>: the commit a branch name points at, NoCommit when the
\* ref does not resolve.
revParse(w, ref) == IF ref \in AllNames THEN w.heads[ref] ELSE NoCommit

\* Commit x is commit y or one of its ancestors.
InHistory(x, y) == x # NoCommit /\ y # NoCommit /\ x \in Anc(y)

\* isAncestor with the two commits of merge-base --is-ancestor exchanged.
isAncestorSwapped(commitA, commitB) == InHistory(commitB, commitA)

\* SyncManager.isAncestor: git merge-base --is-ancestor A B exits with 0.
isAncestor(commitA, commitB) == InHistory(commitA, commitB)

\* A best common ancestor of two commits, NoCommit when there is none: a
\* common ancestor that is no ancestor of another one, that is (the common
\* ancestors being closed under parents) one that is no parent of another.
MergeBaseOf(c1, c2) ==
  LET common == Anc(c1) \cap Anc(c2)
      best == common \ UNION {d[2] : d \in common}
  IN IF common = {} THEN NoCommit ELSE CHOOSE c \in best : TRUE

\* GitOperations.getMergeBase(branch1, branch2): null (NoCommit) on failure.
getMergeBase(w, branch1, branch2) ==
  MergeBaseOf(revParse(w, branch1), revParse(w, branch2))

\* git rev-list --count from..to, 0 when the command fails.
countCommits(from, to) ==
  IF from = NoCommit \/ to = NoCommit THEN 0
  ELSE Cardinality(Anc(to) \ Anc(from))

\* git status --porcelain: one line per changed path, <<code, path>>.
statusPorcelain(w) ==
  (IF w.dirty THEN << <<" M", "h">> >> ELSE <<>>) \o w.wip.lines

\* hasUncommittedChanges that never looks at the status.
hasUncommittedChangesIgnored(w) == FALSE

hasUncommittedChanges(w) == Len(statusPorcelain(w)) > 0

\* git rev-parse --abbrev-ref HEAD: the branch name, "HEAD" when detached.
getCurrentBranch(w) == w.current

\* git rev-parse HEAD
getCurrentCommit(w) ==
  IF w.current \in AllNames THEN w.heads[w.current] ELSE w.wip.onto

\* ------------------------------------------------- result values (errors.ts)
NoDetails == [hasFiles |-> FALSE, files |-> <<>>]
stackOk(v) == [ok |-> TRUE, code |-> "", details |-> NoDetails, value |-> v]
stackErr(code, details) ==
  [ok |-> FALSE, code |-> code, details |-> details, value |-> <<>>]
syncConflict(files) ==
  stackErr("SYNC_CONFLICT", [hasFiles |-> TRUE, files |-> files])

\* ------------------------------------------------------------ StackManager
getStackMetadata(cfg, stackName) ==
  IF cfg.trunk[stackName] = "" \/ cfg.root[stackName] = ""
  THEN stackErr("STACK_NOT_FOUND", NoDetails)
  ELSE stackOk([name |-> stackName, trunk |-> cfg.trunk[stackName],
                root |-> cfg.root[stackName],
                createdAt |-> cfg.created[stackName]])

getBranchStack(cfg, branchName) ==
  IF cfg.stackname[branchName] = "" \/ cfg.stackparent[branchName] = ""
  THEN stackErr("NOT_IN_STACK", NoDetails)
  ELSE stackOk([stackName |-> cfg.stackname[branchName],
                parent |-> cfg.stackparent[branchName],
                baseCommit |-> cfg.stackbase[branchName]])

\* The line "branch.<name>.stackname <value>" matches the pattern
\* /^branch\.([^.]+)\.stackname\s+(.+)$/ only when <name> holds no dot.
matchesStacknameLine(branchName) == branchName \notin DottedNames

\* The keys of the Map getStackBranches builds, in the order the branch
\* sections appear in the config file (fileOrder).
RECURSIVE SelectMembers(_, _, _)
SelectMembers(cfg, stackName, fileOrder) ==
  IF fileOrder = <<>> THEN <<>>
  ELSE LET b == Head(fileOrder)
           rest == SelectMembers(cfg, stackName, Tail(fileOrder))
       IN IF /\ cfg.stackname[b] # ""
             /\ matchesStacknameLine(b)
             /\ cfg.stackname[b] = stackName
             /\ getBranchStack(cfg, b).ok
          THEN <<b>> \o rest ELSE rest

getStackBranches(cfg, stackName, fileOrder) ==
  SelectMembers(cfg, stackName, fileOrder)

updateBranchBase(cfg, branchName, newBase) ==
  [cfg EXCEPT !.stackbase[branchName] = newBase]

setBranchStackMetadata(cfg, branchName, metadata) ==
  [cfg EXCEPT !.stackname[branchName] = metadata.stackName,
              !.stackparent[branchName] = metadata.parent,
              !.stackbase[branchName] = metadata.baseCommit]

removeBranch(cfg, branchName) ==
  [cfg EXCEPT !.stackname[branchName] = "",
              !.stackparent[branchName] = "",
              !.stackbase[branchName] = NoCommit]

\* ------------------------------------------------- SyncManager: detection
BaseStatus(branchName, meta) ==
  [branch |-> branchName, parent |-> meta.parent,
   baseCommit |-> meta.baseCommit, parentHead |-> NoCommit,
   status |-> "synced", commitsBehind |-> 0, commitsAhead |-> 0]

getBranchSyncStatus(w, branchName, meta) ==
  LET baseStatus == BaseStatus(branchName, meta)
      parentHead == revParse(w, meta.parent)
      withHead == [baseStatus EXCEPT !.parentHead = parentHead]
      mergeBase == getMergeBase(w, branchName, meta.parent)
  IN IF parentHead = NoCommit
       THEN [baseStatus EXCEPT !.status = "error"]
     ELSE IF meta.baseCommit = parentHead
       THEN withHead
     ELSE IF isAncestor(meta.baseCommit, parentHead)
       THEN [withHead EXCEPT
               !.status = "behind",
               !.commitsBehind = countCommits(meta.baseCommit, parentHead)]
     ELSE IF mergeBase # NoCommit /\ mergeBase # meta.baseCommit
       THEN [withHead EXCEPT
               !.status = "diverged",
               !.commitsBehind = countCommits(mergeBase, parentHead),
               !.commitsAhead =
                  countCommits(mergeBase, revParse(w, branchName))]
     ELSE withHead

\* The traversal without the visited set, cut off once it has listed more than
\* twice the branches there are.
RECURSIVE visitUnmarked(_, _, _, _, _)
visitUnmarked(cfg, keys, parent, ordered, i) ==
  IF i > Len(keys) \/ Len(ordered) > Len(keys) + Len(keys) THEN ordered
  ELSE LET branch == keys[i]
       IN IF cfg.stackparent[branch] = parent
          THEN visitUnmarked(cfg, keys, parent,
                 visitUnmarked(cfg, keys, branch, Append(ordered, branch), 1),
                 i + 1)
          ELSE visitUnmarked(cfg, keys, parent, ordered, i + 1)

\* visit(parent) of orderBranchesByDepth: scans the Map's keys from index i,
\* appending every unvisited branch whose parent is `parent` and descending
\* into it; `ordered` doubles as the visited set.
RECURSIVE visit(_, _, _, _, _)
visit(cfg, keys, parent, ordered, i) ==
  IF i > Len(keys) THEN ordered
  ELSE LET branch == keys[i]
       IN IF cfg.stackparent[branch] = parent /\ branch \notin Range(ordered)
          THEN visit(cfg, keys, parent,
                     visit(cfg, keys, branch, Append(ordered, branch), 1),
                     i + 1)
          ELSE visit(cfg, keys, parent, ordered, i + 1)

orderBranchesByDepth(cfg, keys, trunk) == visit(cfg, keys, trunk, <<>>, 1)

needsSyncOf(statuses) ==
  \E i \in 1..Len(statuses) : statuses[i].status \in {"behind", "diverged"}

getStackSyncStatus(w, stackName, fileOrder) ==
  LET stackMeta == getStackMetadata(w.config, stackName)
      keys == getStackBranches(w.config, stackName, fileOrder)
      orderedBranches ==
        orderBranchesByDepth(w.config, keys, stackMeta.value.trunk)
      statuses ==
        [i \in 1..Len(orderedBranches) |->
           getBranchSyncStatus(w, orderedBranches[i],
             getBranchStack(w.config, orderedBranches[i]).value)]
  IN IF ~stackMeta.ok THEN stackErr("STACK_NOT_FOUND", NoDetails)
     ELSE stackOk([stackName |-> stackName,
                   trunk |-> stackMeta.value.trunk,
                   branches |-> statuses,
                   needsSync |-> needsSyncOf(statuses)])

\* ------------------------------------------------------------ git mutations
\* The porcelain status a stopped rebase or merge can leave: unmerged entries
\* (both modified, both added, both deleted, deleted by them, ...).
ConflictStatuses ==
  { << <<"UU", "f">> >>,
    << <<"AA", "f">> >>,
    << <<"DD", "f">> >>,
    << <<"UD", "f">> >>,
    << <<"DU", "f">>, <<"UU", "g">> >> }

\* git checkout <branch> succeeds only for an existing branch and with no
\* unmerged index.
CanCheckout(w, branch) ==
  branch \in AllNames /\ w.heads[branch] # NoCommit /\ w.wip.kind = "none"

\* git checkout <branch>, as the first step of a sync: it can also fail for an
\* existing branch (for example one checked out in another worktree).
gitCheckout(w, branch) ==
  (IF CanCheckout(w, branch)
   THEN {[w |-> [w EXCEPT !.current = branch], exitCode |-> 0]} ELSE {})
  \cup {[w |-> w, exitCode |-> 1]}

\* git checkout <branch> through exec, its result ignored by the caller.
checkoutExec(w, branch) ==
  IF CanCheckout(w, branch) THEN [w EXCEPT !.current = branch] ELSE w

\* The commits a rebase replays onto `tip`, oldest first.
RECURSIVE ReplayFrom(_, _)
ReplayFrom(tip, todo) ==
  IF todo = {} THEN tip
  ELSE LET c == CHOOSE c \in todo : \A d \in todo : Depth(c) <= Depth(d)
       IN ReplayFrom(<<c[1], {tip}>>, todo \ {c})

\* What a rebase of `tip` onto `onto` replays: the commits of tip that are not
\* in onto, without merge commits and without patches already upstream.
ToReplay(tip, onto) ==
  LET upstream == {c[1] : c \in Anc(onto) \ Anc(tip)}
  IN {c \in Anc(tip) \ Anc(onto) :
        Cardinality(c[2]) <= 1 /\ c[1] \notin upstream}

Stopped(w, kind, branch, onto) ==
  {[w |-> [w EXCEPT !.current = IF kind = "rebase" THEN "HEAD" ELSE branch,
                    !.wip = [kind |-> kind, branch |-> branch,
                             onto |-> onto, lines |-> ls]],
    exitCode |-> 1] : ls \in ConflictStatuses}

\* git rebase <parent> on the checked-out branch.
gitRebase(w, parent) ==
  LET x == w.current
      tip == w.heads[x]
      onto == revParse(w, parent)
  IN IF onto = NoCommit THEN {[w |-> w, exitCode |-> 128]}
     ELSE {[w |-> [w EXCEPT !.heads[x] = IF InHistory(onto, tip) THEN tip
                                        ELSE ReplayFrom(onto, ToReplay(tip, onto))],
            exitCode |-> 0]}
          \cup (IF w.dirty THEN {[w |-> w, exitCode |-> 1]} ELSE {})
          \cup (IF ToReplay(tip, onto) # {} /\ ~InHistory(onto, tip)
                THEN Stopped(w, "rebase", x, onto) ELSE {})

\* git merge <parent> --no-edit on the checked-out branch.
gitMerge(w, parent) ==
  LET x == w.current
      tip == w.heads[x]
      theirs == revParse(w, parent)
      merged == IF InHistory(theirs, tip) THEN tip
                ELSE IF InHistory(tip, theirs) THEN theirs
                ELSE <<"m", {tip, theirs}>>
  IN IF theirs = NoCommit THEN {[w |-> w, exitCode |-> 1]}
     ELSE {[w |-> [w EXCEPT !.heads[x] = merged], exitCode |-> 0]}
          \cup (IF w.dirty THEN {[w |-> w, exitCode |-> 1]} ELSE {})
          \cup (IF ~InHistory(theirs, tip) /\ ~InHistory(tip, theirs)
                THEN Stopped(w, "merge", x, theirs) ELSE {})

\* git rebase --abort / git merge --abort: back on the branch, index clean.
gitAbort(w, kind) ==
  IF w.wip.kind = kind
  THEN [w EXCEPT !.current = w.wip.branch, !.wip = NoWip]
  ELSE w

\* --------------------------------------------------- SyncManager: execution
isConflictLine(line) == line[1] \in {"UU", "AA", "DD"}

conflictFilesOf(st) ==
  LET conflictLines == SelectSeq(st, isConflictLine)
  IN [i \in 1..Len(conflictLines) |-> conflictLines[i][2]]

\* The part rebaseBranch and mergeBranch share: inspect the status after a
\* failed step, abort on a recognised conflict.
afterStep(g, kind, parent) ==
  LET st == statusPorcelain(g.w)
      conflictFiles == conflictFilesOf(st)
  IN IF g.exitCode # 0
     THEN IF Len(conflictFiles) > 0
          THEN [w |-> gitAbort(g.w, kind), res |-> syncConflict(conflictFiles),
                log |-> << <<kind, parent>>, <<kind, "--abort">> >>,
                seen |-> st, exitCode |-> g.exitCode]
          ELSE [w |-> g.w, res |-> stackErr("GIT_ERROR", NoDetails),
                log |-> << <<kind, parent>> >>,
                seen |-> st, exitCode |-> g.exitCode]
     ELSE [w |-> g.w, res |-> stackOk(<<>>), log |-> << <<kind, parent>> >>,
           seen |-> <<>>, exitCode |-> 0]

rebaseBranch(w, branch, parent) ==
  {afterStep(g, "rebase", parent) : g \in gitRebase(w, parent)}

mergeBranch(w, branch, parent) ==
  {afterStep(g, "merge", parent) : g \in gitMerge(w, parent)}

Impls == {"sync.ts", "part_007"}
Options == [merge : BOOLEAN, force : BOOLEAN]

Run(w, ret, log, seen, stepExit) ==
  [w |-> w, ret |-> ret, log |-> log, seen |-> seen, stepExit |-> stepExit]

\* restoreBranch that leaves the synced branch checked out.
restoreBranchSkipped(w, currentBranch, branchName) == w

\* "Restore original branch": checkout currentBranch unless it is the branch
\* being synced.
restoreBranch(w, currentBranch, branchName) ==
  IF currentBranch # "" /\ currentBranch # branchName
  THEN checkoutExec(w, currentBranch) ELSE w

\* What syncBranch returns for a failed rebase/merge step: sync.ts returns the
\* helper's error as it is, part_007 wraps its message and details in a
\* GIT_ERROR.
stepError(impl, res) ==
  IF impl = "sync.ts" THEN res ELSE stackErr("GIT_ERROR", res.details)

\* The completion that stores the new base before it looks at the step's
\* result.
finishSyncUpdatingFirst(r, branchName, meta, currentBranch, impl, log0) ==
  LET newBase == revParse(r.w, meta.parent)
      log1 == log0 \o r.log
      updated == [r.w EXCEPT
                    !.config = updateBranchBase(r.w.config, branchName, newBase)]
  IN IF ~r.res.ok
       THEN Run(restoreBranch(updated, currentBranch, branchName),
                stepError(impl, r.res), log1, r.seen, r.exitCode)
     ELSE IF newBase = NoCommit
       THEN Run(IF impl = "sync.ts" THEN checkoutExec(r.w, currentBranch)
                ELSE r.w,
                stackErr("GIT_ERROR", NoDetails), log1, r.seen, r.exitCode)
     ELSE Run(restoreBranch(updated, currentBranch, branchName),
              stackOk([branch |-> branchName, success |-> TRUE,
                       newBase |-> newBase]),
              Append(log1, <<"updateBranchBase", branchName>>),
              r.seen, r.exitCode)

\* syncBranch after the rebase/merge step r.
finishSync(r, branchName, meta, currentBranch, impl, log0) ==
  LET newBase == revParse(r.w, meta.parent)
      log1 == log0 \o r.log
      updated == [r.w EXCEPT
                    !.config = updateBranchBase(r.w.config, branchName, newBase)]
  IN IF ~r.res.ok
       THEN Run(restoreBranch(r.w, currentBranch, branchName),
                stepError(impl, r.res), log1, r.seen, r.exitCode)
     ELSE IF newBase = NoCommit
       THEN Run(IF impl = "sync.ts" THEN checkoutExec(r.w, currentBranch)
                ELSE r.w,
                stackErr("GIT_ERROR", NoDetails), log1, r.seen, r.exitCode)
     ELSE Run(restoreBranch(updated, currentBranch, branchName),
              stackOk([branch |-> branchName, success |-> TRUE,
                       newBase |-> newBase]),
              Append(log1, <<"updateBranchBase", branchName>>),
              r.seen, r.exitCode)

\* Every way a call syncBranch(branchName, options) can run from world w.
syncBranch(w, branchName, options, impl) ==
  LET branchMeta == getBranchStack(w.config, branchName)
      meta == branchMeta.value
      currentBranch == getCurrentBranch(w)
      log0 == << <<"checkout", branchName>> >>
  IN IF ~branchMeta.ok
       THEN {Run(w, stackErr("NOT_IN_STACK", NoDetails), <<>>, <<>>, -1)}
     ELSE IF hasUncommittedChanges(w) /\ ~options.force
       THEN {Run(w, stackErr("UNCOMMITTED_CHANGES", NoDetails), <<>>, <<>>, -1)}
     ELSE UNION {
            IF co.exitCode # 0
            THEN {Run(IF impl = "sync.ts" THEN checkoutExec(co.w, currentBranch)
                      ELSE co.w,
                      stackErr("GIT_ERROR", NoDetails), log0, <<>>, -1)}
            ELSE {finishSync(r, branchName, meta, currentBranch, impl, log0) :
                    r \in IF options.merge
                          THEN mergeBranch(co.w, branchName, meta.parent)
                          ELSE rebaseBranch(co.w, branchName, meta.parent)}
            : co \in gitCheckout(w, branchName)}

\* One element of the SyncResult[] that syncStack returns.
SyncResult(branch, success, newBase, hasError, details) ==
  [branch |-> branch, success |-> success, newBase |-> newBase,
   hasError |-> hasError, hasConflictFiles |-> details.hasFiles,
   conflictFiles |-> details.files]

\* The loop of syncStack calling syncBranch for every branch, whatever its
\* status.
RECURSIVE syncLoopEveryBranch(_, _, _, _, _, _, _)
syncLoopEveryBranch(w, statuses, i, results, log, options, impl) ==
  IF i > Len(statuses)
  THEN {[w |-> w, ret |-> stackOk(results), log |-> log]}
  ELSE LET b == statuses[i].branch
       IN UNION {
            IF ~r.ret.ok
            THEN {[w |-> r.w,
                   ret |-> stackOk(Append(results,
                             SyncResult(b, FALSE, NoCommit, TRUE, r.ret.details))),
                   log |-> log \o << <<"syncBranch", b>> >> \o r.log]}
            ELSE syncLoopEveryBranch(r.w, statuses, i + 1,
                   Append(results,
                     SyncResult(b, TRUE, r.ret.value.newBase, FALSE, NoDetails)),
                   log \o << <<"syncBranch", b>> >> \o r.log, options, impl)
            : r \in syncBranch(w, b, options, impl)}

\* The loop of syncStack without the break after a failed syncBranch.
RECURSIVE syncLoopNoBreak(_, _, _, _, _, _, _)
syncLoopNoBreak(w, statuses, i, results, log, options, impl) ==
  IF i > Len(statuses)
  THEN {[w |-> w, ret |-> stackOk(results), log |-> log]}
  ELSE LET branchStatus == statuses[i]
           b == branchStatus.branch
       IN IF branchStatus.status = "synced"
            THEN syncLoopNoBreak(w, statuses, i + 1,
                   Append(results, SyncResult(b, TRUE, NoCommit, FALSE, NoDetails)),
                   log, options, impl)
          ELSE IF branchStatus.status = "error"
            THEN syncLoopNoBreak(w, statuses, i + 1,
                   Append(results, SyncResult(b, FALSE, NoCommit, TRUE, NoDetails)),
                   log, options, impl)
          ELSE UNION {
                 syncLoopNoBreak(r.w, statuses, i + 1,
                   Append(results,
                     IF r.ret.ok
                     THEN SyncResult(b, TRUE, r.ret.value.newBase, FALSE, NoDetails)
                     ELSE SyncResult(b, FALSE, NoCommit, TRUE, r.ret.details)),
                   log \o << <<"syncBranch", b>> >> \o r.log, options, impl)
                 : r \in syncBranch(w, b, options, impl)}

\* The loop of syncStack from index i of the status list computed up front.
RECURSIVE syncLoop(_, _, _, _, _, _, _)
syncLoop(w, statuses, i, results, log, options, impl) ==
  IF i > Len(statuses)
  THEN {[w |-> w, ret |-> stackOk(results), log |-> log]}
  ELSE LET branchStatus == statuses[i]
           b == branchStatus.branch
       IN IF branchStatus.status = "synced"
            THEN syncLoop(w, statuses, i + 1,
                   Append(results, SyncResult(b, TRUE, NoCommit, FALSE, NoDetails)),
                   log, options, impl)
          ELSE IF branchStatus.status = "error"
            THEN syncLoop(w, statuses, i + 1,
                   Append(results, SyncResult(b, FALSE, NoCommit, TRUE, NoDetails)),
                   log, options, impl)
          ELSE UNION {
                 IF ~r.ret.ok
                 THEN {[w |-> r.w,
                        ret |-> stackOk(Append(results,
                                  SyncResult(b, FALSE, NoCommit, TRUE, r.ret.details))),
                        log |-> log \o << <<"syncBranch", b>> >> \o r.log]}
                 ELSE syncLoop(r.w, statuses, i + 1,
                        Append(results,
                          SyncResult(b, TRUE, r.ret.value.newBase, FALSE, NoDetails)),
                        log \o << <<"syncBranch", b>> >> \o r.log, options, impl)
                 : r \in syncBranch(w, b, options, impl)}

\* Every way a call syncStack(stackName, options) can run from world w.
syncStack(w, stackName, options, impl, fileOrder) ==
  LET statusResult == getStackSyncStatus(w, stackName, fileOrder)
  IN IF ~statusResult.ok
     THEN {[w |-> w, ret |-> statusResult, log |-> <<>>]}
     ELSE syncLoop(w, statusResult.value.branches, 1, <<>>, <<>>, options, impl)

\* An exception that escapes the operation instead of a returned StackError.
Thrown == [ok |-> FALSE, code |-> "thrown", details |-> NoDetails, value |-> <<>>]

RECURSIVE restackLoop(_, _, _, _)
restackLoop(w, keys, i, impl) ==
  IF i > Len(keys) THEN [w |-> w, ret |-> stackOk(<<>>)]
  ELSE LET branchName == keys[i]
           meta == getBranchStack(w.config, branchName).value
           parentHead == revParse(w, meta.parent)
       IN IF parentHead = NoCommit
          THEN [w |-> w,
                ret |-> IF impl = "sync.ts" THEN Thrown
                        ELSE stackErr("GIT_ERROR", NoDetails)]
          ELSE restackLoop(
                 [w EXCEPT !.config =
                    updateBranchBase(w.config, branchName, parentHead)],
                 keys, i + 1, impl)

\* restackBranches that rebases the first branch before re-recording bases.
restackBranchesRebasing(w, stackName, impl, fileOrder) ==
  LET keys == getStackBranches(w.config, stackName, fileOrder)
      runs == IF keys = <<>> THEN {}
              ELSE syncBranch(w, keys[1], [merge |-> FALSE, force |-> TRUE], impl)
      conflicts == {r \in runs : r.ret.code = "SYNC_CONFLICT"}
  IN IF conflicts # {}
     THEN LET r == CHOOSE r \in conflicts : TRUE IN [w |-> r.w, ret |-> r.ret]
     ELSE restackLoop(w, keys, 1, impl)

restackBranches(w, stackName, impl, fileOrder) ==
  restackLoop(w, getStackBranches(w.config, stackName, fileOrder), 1, impl)

\* initStack that stores the stack keys before it looks at the root branch.
initStackWritesEarly(w, stackName, trunk, rootBranch, now) ==
  LET cfg1 == [w.config EXCEPT !.trunk[stackName] = trunk,
                               !.root[stackName] = rootBranch,
                               !.created[stackName] = now]
      cfg2 == setBranchStackMetadata(cfg1, rootBranch,
                [stackName |-> stackName, parent |-> trunk,
                 baseCommit |-> getCurrentCommit(w)])
  IN IF revParse(w, trunk) = NoCommit
       THEN [w |-> w, ret |-> stackErr("INVALID_TRUNK", NoDetails)]
     ELSE IF getStackMetadata(w.config, stackName).ok
       THEN [w |-> w, ret |-> stackErr("STACK_EXISTS", NoDetails)]
     ELSE IF getBranchStack(w.config, rootBranch).ok
       THEN [w |-> [w EXCEPT !.config = cfg1],
             ret |-> stackErr("ALREADY_IN_STACK", NoDetails)]
     ELSE [w |-> [w EXCEPT !.config = cfg2],
           ret |-> stackOk([name |-> stackName, trunk |-> trunk,
                            root |-> rootBranch, createdAt |-> now])]

\* initStack that records the root branch's own head as its base instead of
\* the commit HEAD points at.
initStackBaseFromRoot(w, stackName, trunk, rootBranch, now) ==
  LET cfg1 == [w.config EXCEPT !.trunk[stackName] = trunk,
                               !.root[stackName] = rootBranch,
                               !.created[stackName] = now]
      cfg2 == setBranchStackMetadata(cfg1, rootBranch,
                [stackName |-> stackName, parent |-> trunk,
                 baseCommit |-> revParse(w, rootBranch)])
  IN IF revParse(w, trunk) = NoCommit
       THEN [w |-> w, ret |-> stackErr("INVALID_TRUNK", NoDetails)]
     ELSE IF getStackMetadata(w.config, stackName).ok
       THEN [w |-> w, ret |-> stackErr("STACK_EXISTS", NoDetails)]
     ELSE IF getBranchStack(w.config, rootBranch).ok
       THEN [w |-> w, ret |-> stackErr("ALREADY_IN_STACK", NoDetails)]
     ELSE [w |-> [w EXCEPT !.config = cfg2],
           ret |-> stackOk([name |-> stackName, trunk |-> trunk,
                            root |-> rootBranch, createdAt |-> now])]

\* addBranch that looks at the branch itself before it looks at the parent.
addBranchOwnCheckFirst(w, branchName, parentBranch, stackName) ==
  LET parentStack == getBranchStack(w.config, parentBranch)
      metadata == [stackName |-> stackName, parent |-> parentBranch,
                   baseCommit |-> getCurrentCommit(w)]
  IN IF ~getStackMetadata(w.config, stackName).ok
       THEN [w |-> w, ret |-> stackErr("STACK_NOT_FOUND", NoDetails)]
     ELSE IF getBranchStack(w.config, branchName).ok
       THEN [w |-> w, ret |-> stackErr("ALREADY_IN_STACK", NoDetails)]
     ELSE IF ~parentStack.ok
       THEN [w |-> w, ret |-> stackErr("NOT_IN_STACK", NoDetails)]
     ELSE IF parentStack.value.stackName # stackName
       THEN [w |-> w, ret |-> stackErr("CONFIG_ERROR", NoDetails)]
     ELSE [w |-> [w EXCEPT !.config =
                    setBranchStackMetadata(w.config, branchName, metadata)],
           ret |-> stackOk(metadata)]

\* initStack that does not refuse a stack name already in use.
initStackOverwrites(w, stackName, trunk, rootBranch, now) ==
  LET cfg1 == [w.config EXCEPT !.trunk[stackName] = trunk,
                               !.root[stackName] = rootBranch,
                               !.created[stackName] = now]
      cfg2 == setBranchStackMetadata(cfg1, rootBranch,
                [stackName |-> stackName, parent |-> trunk,
                 baseCommit |-> getCurrentCommit(w)])
  IN IF revParse(w, trunk) = NoCommit
       THEN [w |-> w, ret |-> stackErr("INVALID_TRUNK", NoDetails)]
     ELSE IF getBranchStack(w.config, rootBranch).ok
       THEN [w |-> w, ret |-> stackErr("ALREADY_IN_STACK", NoDetails)]
     ELSE [w |-> [w EXCEPT !.config = cfg2],
           ret |-> stackOk([name |-> stackName, trunk |-> trunk,
                            root |-> rootBranch, createdAt |-> now])]

\* StackManager.initStack / addBranch / deleteStack on the config store.
initStack(w, stackName, trunk, rootBranch, now) ==
  LET existingBranchStack == getBranchStack(w.config, rootBranch)
      cfg1 == [w.config EXCEPT !.trunk[stackName] = trunk,
                               !.root[stackName] = rootBranch,
                               !.created[stackName] = now]
      cfg2 == setBranchStackMetadata(cfg1, rootBranch,
                [stackName |-> stackName, parent |-> trunk,
                 baseCommit |-> getCurrentCommit(w)])
  IN IF revParse(w, trunk) = NoCommit
       THEN [w |-> w, ret |-> stackErr("INVALID_TRUNK", NoDetails)]
     ELSE IF getStackMetadata(w.config, stackName).ok
       THEN [w |-> w, ret |-> stackErr("STACK_EXISTS", NoDetails)]
     ELSE IF existingBranchStack.ok
       THEN [w |-> w, ret |-> stackErr("ALREADY_IN_STACK", NoDetails)]
     ELSE [w |-> [w EXCEPT !.config = cfg2],
           ret |-> stackOk([name |-> stackName, trunk |-> trunk,
                            root |-> rootBranch, createdAt |-> now])]

addBranch(w, branchName, parentBranch, stackName) ==
  LET parentStack == getBranchStack(w.config, parentBranch)
      metadata == [stackName |-> stackName, parent |-> parentBranch,
                   baseCommit |-> getCurrentCommit(w)]
  IN IF ~getStackMetadata(w.config, stackName).ok
       THEN [w |-> w, ret |-> stackErr("STACK_NOT_FOUND", NoDetails)]
     ELSE IF ~parentStack.ok
       THEN [w |-> w, ret |-> stackErr("NOT_IN_STACK", NoDetails)]
     ELSE IF parentStack.value.stackName # stackName
       THEN [w |-> w, ret |-> stackErr("CONFIG_ERROR", NoDetails)]
     ELSE IF getBranchStack(w.config, branchName).ok
       THEN [w |-> w, ret |-> stackErr("ALREADY_IN_STACK", NoDetails)]
     ELSE [w |-> [w EXCEPT !.config =
                    setBranchStackMetadata(w.config, branchName, metadata)],
           ret |-> stackOk(metadata)]

\* `git config --unset <key>` exits with 0 when the key was there and with 5
\* when it was not.
unsetExitCode(present) == IF present THEN 0 ELSE 5

\* unsetGitConfig that takes every non-zero exit code for a failure.
unsetGitConfigStrict(exitCode) == exitCode = 0

\* unsetGitConfig succeeds unless the exit code is neither 0 nor 5.
unsetGitConfig(exitCode) == ~(exitCode # 0 /\ exitCode # 5)

\* removeBranch with its three unsets in turn, each returning early on error.
removeBranchResult(cfg, branchName) ==
  LET c1 == [cfg EXCEPT !.stackname[branchName] = ""]
      c2 == [c1 EXCEPT !.stackparent[branchName] = ""]
      c3 == [c2 EXCEPT !.stackbase[branchName] = NoCommit]
  IN IF ~unsetGitConfig(unsetExitCode(cfg.stackname[branchName] # ""))
       THEN [cfg |-> cfg, ret |-> stackErr("CONFIG_ERROR", NoDetails)]
     ELSE IF ~unsetGitConfig(unsetExitCode(c1.stackparent[branchName] # ""))
       THEN [cfg |-> c1, ret |-> stackErr("CONFIG_ERROR", NoDetails)]
     ELSE IF ~unsetGitConfig(unsetExitCode(c2.stackbase[branchName] # NoCommit))
       THEN [cfg |-> c2, ret |-> stackErr("CONFIG_ERROR", NoDetails)]
     ELSE [cfg |-> c3, ret |-> stackOk(<<>>)]

RECURSIVE removeAll(_, _)
removeAll(cfg, keys) ==
  IF keys = <<>> THEN cfg ELSE removeAll(removeBranch(cfg, Head(keys)), Tail(keys))

deleteStack(w, stackName, fileOrder) ==
  LET branches == getStackBranches(w.config, stackName, fileOrder)
      cfg1 == removeAll(w.config, branches)
  IN [w |-> [w EXCEPT !.config =
               [cfg1 EXCEPT !.trunk[stackName] = "", !.root[stackName] = "",
                            !.created[stackName] = ""]],
      ret |-> stackOk(<<>>)]

\* ------------------------------------------------------------------ state
\* The orders in which the branch sections can stand in the config file.
Orders == {<<"main", "a", "b", "fix.1">>, <<"fix.1", "b", "a", "main">>}

\* Every commit the repository holds: the histories of the branch heads and
\* the recorded base commits.
KnownCommits ==
  UNION {Anc(heads[b]) : b \in AllNames}
    \cup UNION {Anc(config.stackbase[b]) : b \in AllNames}

SetWorld(w) ==
  /\ heads' = w.heads
  /\ current' = w.current
  /\ dirty' = w.dirty
  /\ wip' = w.wip
  /\ config' = w.config

Init ==
  /\ heads = [b \in AllNames |-> RootCommit]
  /\ current = "main"
  /\ dirty = FALSE
  /\ wip = NoWip
  /\ config = EmptyConfig
  /\ nUser = 0
  /\ op = Idle

\* ---------------------------------------------- what the user does with git
UserCommit(b) ==
  /\ op = Idle
  /\ nUser < MaxUserCommits
  /\ wip.kind = "none"
  /\ current = b
  /\ heads' = [heads EXCEPT ![b] = <<b, {heads[b]}>>]
  /\ nUser' = nUser + 1
  /\ UNCHANGED <<current, dirty, wip, config, op>>

UserCheckout(b) ==
  /\ op = Idle
  /\ CanCheckout(World, b)
  /\ current # b
  /\ ~dirty
  /\ current' = b
  /\ UNCHANGED <<heads, dirty, wip, config, nUser, op>>

UserEdit ==
  /\ op = Idle
  /\ dirty' = ~dirty
  /\ UNCHANGED <<heads, current, wip, config, nUser, op>>

UserAbort ==
  /\ op = Idle
  /\ wip.kind # "none"
  /\ SetWorld(gitAbort(World, wip.kind))
  /\ UNCHANGED <<nUser, op>>

\* git branch -D <b>: the ref goes, and with it the branch.<b> section of the
\* config file, where the stack keys of b live.
UserDeleteBranch(b) ==
  /\ op = Idle
  /\ heads[b] # NoCommit
  /\ current # b
  /\ wip.kind = "none"
  /\ heads' = [heads EXCEPT ![b] = NoCommit]
  /\ config' = removeBranch(config, b)
  /\ UNCHANGED <<current, dirty, wip, nUser, op>>

\* --------------------------------------------------------- the operations
\* One command runs at a time (the repository is owned by the current CLI
\* invocation).  op records the call in progress: its name and arguments, the
\* world it started from (pre), the value it returned and the git commands it
\* ran (log); Return ends the invocation.
Call(name, args, r) ==
  /\ op = Idle
  /\ SetWorld(r.w)
  /\ op' = [name |-> name, args |-> args, pre |-> World, ret |-> r.ret]
  /\ UNCHANGED nUser

Return ==
  /\ op # Idle
  /\ op' = Idle
  /\ UNCHANGED <<heads, current, dirty, wip, config, nUser>>

InitStack(stackName, trunk, rootBranch) ==
  \E now \in Times :
    Call("initStack", <<stackName, trunk, rootBranch>>,
         initStack(World, stackName, trunk, rootBranch, now))

AddBranch(branchName, parentBranch, stackName) ==
  Call("addBranch", <<branchName, parentBranch, stackName>>,
       addBranch(World, branchName, parentBranch, stackName))

RemoveBranch(branchName) ==
  LET r == removeBranchResult(config, branchName)
  IN Call("removeBranch", <<branchName>>,
          [w |-> [World EXCEPT !.config = r.cfg], ret |-> r.ret])

DeleteStack(stackName) ==
  \E fileOrder \in Orders :
    Call("deleteStack", <<stackName>>, deleteStack(World, stackName, fileOrder))

GetStackSyncStatus(stackName) ==
  \E fileOrder \in Orders :
    Call("getStackSyncStatus", <<stackName>>,
         [w |-> World, ret |-> getStackSyncStatus(World, stackName, fileOrder)])

GetBranchSyncStatus(branchName) ==
  \E meta \in [stackName : StackNames, parent : Names,
               baseCommit : KnownCommits \cup {NoCommit}] :
    Call("getBranchSyncStatus", <<branchName, meta>>,
         [w |-> World, ret |-> getBranchSyncStatus(World, branchName, meta)])

SyncBranch(branchName, impl) ==
  /\ op = Idle
  /\ \E options \in Options :
    \E r \in syncBranch(World, branchName, options, impl) :
      /\ SetWorld(r.w)
      /\ op' = [name |-> "syncBranch", args |-> <<branchName, options, impl>>,
                ret |-> r.ret, log |-> r.log, seen |-> r.seen,
                stepExit |-> r.stepExit, pre |-> World]
      /\ UNCHANGED nUser

SyncStack(stackName, impl) ==
  /\ op = Idle
  /\ \E options \in Options, fileOrder \in Orders :
    \E r \in syncStack(World, stackName, options, impl, fileOrder) :
      /\ SetWorld(r.w)
      /\ op' = [name |-> "syncStack", args |-> <<stackName, options, impl>>,
                ret |-> r.ret, log |-> r.log,
                status |-> getStackSyncStatus(World, stackName, fileOrder),
                pre |-> World]
      /\ UNCHANGED nUser

RestackBranches(stackName, impl) ==
  \E fileOrder \in Orders :
    Call("restackBranches", <<stackName, impl>>,
         restackBranches(World, stackName, impl, fileOrder))

RepoStep ==
  \/ \E b \in Names : UserCommit(b)
  \/ \E b \in Names : UserCheckout(b)
  \/ UserEdit
  \/ \E b \in Names : UserDeleteBranch(b)

UserStep == RepoStep \/ UserAbort

\* The sync engine on a stack s: main <- a <- b that the user builds and edits.
Next ==
  \/ UserStep
  \/ Return
  \/ InitStack("s", "main", "a")
  \/ AddBranch("b", "a", "s")
  \/ GetStackSyncStatus("s")
  \/ \E b \in Names \ {"main"}, impl \in Impls : SyncBranch(b, impl)
  \/ \E impl \in Impls : SyncStack("s", impl)
  \/ \E impl \in Impls : RestackBranches("s", impl)

Spec == Init /\ [][Next]_vars

\* getBranchSyncStatus as a function of the repository and any metadata.
NextStatus ==
  \/ RepoStep
  \/ Return
  \/ \E b \in Names : GetBranchSyncStatus(b)

SpecStatus == Init /\ [][NextStatus]_vars

\* The stack store driven through its arguments: any stack, any branch of
\* ManagerNames as root or member, main or a as parent, on a repository where
\* the user commits on a, changes branch and deletes the trunk.
ManagerNames == {"main", "a", "fix.1"}
ManagerParents == {"main", "a"}

ManagerCommit(b) == nUser < MaxManagerCommits /\ UserCommit(b)

NextManager ==
  \/ ManagerCommit("a")
  \/ \E b \in ManagerParents : UserCheckout(b)
  \/ UserDeleteBranch("main")
  \/ Return
  \/ \E s \in StackNames, rootBranch \in ManagerNames :
       InitStack(s, "main", rootBranch)
  \/ \E s \in StackNames, branchName \in ManagerNames,
        parentBranch \in ManagerParents :
       AddBranch(branchName, parentBranch, s)
  \/ \E b \in ManagerNames : RemoveBranch(b)
  \/ \E s \in StackNames : DeleteStack(s)
  \/ \E s \in StackNames : GetStackSyncStatus(s)
  \/ \E s \in StackNames, impl \in Impls : RestackBranches(s, impl)

SpecManager == Init /\ [][NextManager]_vars

\* ================================================================== claims
IsSyncBranch == op.name = "syncBranch"

\* The rebase/merge step of the syncBranch call ran and exited non-zero.
StepFailed == IsSyncBranch /\ op.stepExit > 0

\* The status codes git gives unmerged paths.
UnmergedCodes == {"DD", "AU", "UD", "UA", "DU", "AA", "UU"}

SawUnmerged == \E i \in 1..Len(op.seen) : op.seen[i][1] \in UnmergedCodes

SawRecognised == \E i \in 1..Len(op.seen) : op.seen[i][1] \in {"UU", "AA", "DD"}

\* The call started with a branch checked out (not on a detached HEAD).
OnBranchAtCall == op.pre.current \in AllNames

RolledBack == current = op.pre.current /\ wip.kind = "none"

\* C1: if the rebase or merge step of syncBranch stops on a conflict, then on
\* return the branch checked out at the call is checked out again and no
\* rebase or merge is left in progress.
C1_ConflictRollsBack ==
  (StepFailed /\ SawUnmerged /\ OnBranchAtCall) => RolledBack

\* C2: when the rebase/merge step fails and the status holds a UU, AA or DD
\* entry, syncBranch returns an error of kind SYNC_CONFLICT whose details
\* carry the conflicting files.
C2_ConflictIsSyncConflict ==
  (StepFailed /\ SawRecognised) =>
     /\ ~op.ret.ok
     /\ op.ret.code = "SYNC_CONFLICT"
     /\ op.ret.details.hasFiles
     /\ Range(op.ret.details.files) =
          {op.seen[i][2] : i \in {k \in 1..Len(op.seen) :
                                    op.seen[k][1] \in {"UU", "AA", "DD"}}}

\* C3: when the rebase/merge step fails without a recognised conflict entry
\* (the GIT_ERROR outcome), syncBranch still returns on the branch checked out
\* at the call, with no rebase or merge in progress.
C3_GitErrorRollsBack ==
  (StepFailed /\ ~SawRecognised /\ OnBranchAtCall) => RolledBack

IsSyncStack == op.name = "syncStack" /\ op.ret.ok

\* The SyncResult list the syncStack call returned, and the status list it
\* computed when it started.
Results == op.ret.value
Statuses == op.status.value.branches

\* The syncStack call ran syncBranch for the i-th branch of its order.
Attempted(i) == Statuses[i].status \in {"behind", "diverged"}

\* C4: when every result syncStack returned has success:true, a following
\* getStackSyncStatus of the stack reports needsSync = false.
C4_AllSuccessMeansSynced ==
  (IsSyncStack /\ \A i \in 1..Len(Results) : Results[i].success) =>
     \A fileOrder \in Orders :
        ~getStackSyncStatus(World, op.args[1], fileOrder).value.needsSync

\* C5: in syncStack the first branch whose syncBranch call fails ends the
\* run: its failed result is the last element of the returned list, and for
\* every branch later in the root-first order there is no syncBranch call, no
\* checkout, no base update, and its head and stored base are untouched.
C5_FirstFailureHalts ==
  IsSyncStack =>
    \A i \in 1..Len(Results) :
      (~Results[i].success /\ Attempted(i)) =>
         /\ i = Len(Results)
         /\ \A j \in (i + 1)..Len(Statuses) :
              LET x == Statuses[j].branch
              IN /\ \A k \in 1..Len(op.log) :
                      op.log[k] \notin {<<"syncBranch", x>>, <<"checkout", x>>,
                                        <<"updateBranchBase", x>>}
                 /\ heads[x] = op.pre.heads[x]
                 /\ config.stackbase[x] = op.pre.config.stackbase[x]

\* A syncStack run whose syncBranch call failed for a branch while a later
\* branch of the order was waiting to be synced.
C5_Witness ==
  /\ IsSyncStack
  /\ \E i \in 1..Len(Results) :
       /\ ~Results[i].success
       /\ Attempted(i)
       /\ \E j \in (i + 1)..Len(Statuses) : Attempted(j)

\* C6: after syncStack no branch was synced in the run (rebased or merged, its
\* base commit updated) whose parent in the stack got success:false in the
\* same run.
C6_NoSyncOnFailedParent ==
  IsSyncStack =>
    \A i, j \in 1..Len(Results) :
      (Results[j].success /\ Results[j].newBase # NoCommit) =>
         ~(/\ op.pre.config.stackparent[Results[j].branch] = Results[i].branch
           /\ ~Results[i].success)

\* C7: when syncBranch(branch) succeeds, the stored base commit of the branch
\* is the head of its parent after the rebase/merge, the value returned is
\* {branch, success:true, newBase} with that head, and the branch checked out
\* is the one checked out at the call.
C7_SuccessUpdatesBase ==
  (IsSyncBranch /\ op.ret.ok) =>
     LET b == op.args[1]
         parentHead == heads[op.pre.config.stackparent[b]]
     IN /\ parentHead # NoCommit
        /\ config.stackbase[b] = parentHead
        /\ op.ret.value = [branch |-> b, success |-> TRUE, newBase |-> parentHead]
        /\ OnBranchAtCall => current = op.pre.current

\* A successful syncBranch, called from another branch, that moved the branch
\* and its base.
C7_Witness ==
  /\ IsSyncBranch
  /\ op.ret.ok
  /\ OnBranchAtCall
  /\ op.pre.current # op.args[1]
  /\ heads[op.args[1]] # op.pre.heads[op.args[1]]
  /\ config.stackbase[op.args[1]] # op.pre.config.stackbase[op.args[1]]

\* The working tree the call started in had changes (modified files or
\* unmerged paths).
DirtyAtCall == op.pre.dirty \/ op.pre.wip.kind # "none"

TrackedAtCall == op.pre.config.stackname[op.args[1]] # ""

\* C8: syncBranch on a tracked branch with a dirty working tree and without
\* force returns UNCOMMITTED_CHANGES having run no checkout, rebase or merge,
\* and the checked-out branch, the branch heads and the stack metadata are
\* as before; with force the call is never rejected as UNCOMMITTED_CHANGES.
C8_DirtyTreeRejected ==
  IsSyncBranch =>
    /\ (TrackedAtCall /\ DirtyAtCall /\ ~op.args[2].force) =>
          /\ ~op.ret.ok
          /\ op.ret.code = "UNCOMMITTED_CHANGES"
          /\ op.log = <<>>
          /\ World = op.pre
    /\ op.args[2].force => op.ret.code # "UNCOMMITTED_CHANGES"

\* A syncBranch of a behind branch refused for a modified file.
C8_Witness ==
  /\ IsSyncBranch
  /\ TrackedAtCall
  /\ op.pre.dirty
  /\ ~op.args[2].force
  /\ op.ret.code = "UNCOMMITTED_CHANGES"
  /\ op.pre.config.stackbase[op.args[1]] #
       op.pre.heads[op.pre.config.stackparent[op.args[1]]]

IsBranchStatus == op.name = "getBranchSyncStatus"

\* The metadata the getBranchSyncStatus call was given, and the head of the
\* parent it names.
MetaAtCall == op.args[2]
ParentHeadAtCall == revParse(op.pre, MetaAtCall.parent)

\* C9: for every branch and metadata whose parent head resolves,
\* getBranchSyncStatus returns status synced exactly when the stored base
\* commit equals the parent's head, and then both counts are 0.
C9_SyncedIffBaseIsParentHead ==
  (IsBranchStatus /\ ParentHeadAtCall # NoCommit) =>
     /\ op.ret.status = "synced" <=> MetaAtCall.baseCommit = ParentHeadAtCall
     /\ op.ret.status = "synced" =>
          op.ret.commitsBehind = 0 /\ op.ret.commitsAhead = 0

\* C10: getBranchSyncStatus returns status behind exactly when the stored
\* base commit is an ancestor of the parent's head and not equal to it, and
\* then commitsBehind is the number of commits of baseCommit..parentHead.
C10_BehindIffStrictAncestor ==
  IsBranchStatus =>
     LET base == MetaAtCall.baseCommit
         strict == /\ base # NoCommit
                   /\ ParentHeadAtCall # NoCommit
                   /\ base # ParentHeadAtCall
                   /\ base \in Anc(ParentHeadAtCall)
     IN /\ op.ret.status = "behind" <=> strict
        /\ op.ret.status = "behind" =>
             op.ret.commitsBehind =
               Cardinality(Anc(ParentHeadAtCall) \ Anc(base))

\* A branch reported two commits behind its parent.
C10_Witness ==
  /\ IsBranchStatus
  /\ op.ret.status = "behind"
  /\ op.ret.commitsBehind = 2
  /\ MetaAtCall.baseCommit \in Anc(ParentHeadAtCall)

\* The merge base of the branch and its parent when getBranchSyncStatus was
\* called, NoCommit when there is none.
MergeBaseAtCall ==
  MergeBaseOf(revParse(op.pre, op.args[1]), ParentHeadAtCall)

\* C11: getBranchSyncStatus returns status diverged exactly when the stored
\* base commit is not an ancestor of the parent's head and the merge base of
\* branch and parent differs from the base commit; then commitsBehind is the
\* number of commits of mergeBase..parentHead and commitsAhead that of
\* mergeBase..branch.
C11_DivergedIffMergeBaseDiffers ==
  (IsBranchStatus /\ ParentHeadAtCall # NoCommit) =>
     LET base == MetaAtCall.baseCommit
         branchHead == revParse(op.pre, op.args[1])
     IN /\ op.ret.status = "diverged" <=>
             (base \notin Anc(ParentHeadAtCall) /\ MergeBaseAtCall # base)
        /\ op.ret.status = "diverged" =>
             /\ op.ret.commitsBehind =
                  Cardinality(Anc(ParentHeadAtCall) \ Anc(MergeBaseAtCall))
             /\ op.ret.commitsAhead =
                  Cardinality(Anc(branchHead) \ Anc(MergeBaseAtCall))

\* The syncStack call ran no git command and no base update for branch x.
NotTouched(x) ==
  /\ \A k \in 1..Len(op.log) :
       op.log[k] \notin {<<"syncBranch", x>>, <<"checkout", x>>,
                         <<"updateBranchBase", x>>}
  /\ heads[x] = op.pre.heads[x]
  /\ config.stackbase[x] = op.pre.config.stackbase[x]

\* C12: syncStack calls syncBranch only for branches found behind or
\* diverged.  A branch found synced is reported {success:true} without
\* newBase, and no checkout, rebase, merge or base update is run for it; a
\* branch found in error is reported {success:false, error}, again with
\* nothing run for it.
C12_SyncedAndErrorPassThrough ==
  IsSyncStack =>
    /\ \A k \in 1..Len(op.log) :
         op.log[k][1] = "syncBranch" =>
           \E i \in 1..Len(Results) :
             Statuses[i].branch = op.log[k][2] /\ Attempted(i)
    /\ \A i \in 1..Len(Results) :
         LET b == Statuses[i].branch
         IN /\ Results[i].branch = b
            /\ Statuses[i].status = "synced" =>
                 /\ Results[i] = SyncResult(b, TRUE, NoCommit, FALSE, NoDetails)
                 /\ NotTouched(b)
            /\ Statuses[i].status = "error" =>
                 /\ Results[i] = SyncResult(b, FALSE, NoCommit, TRUE, NoDetails)
                 /\ NotTouched(b)

\* A syncStack run that passed one branch through as synced and rebased or
\* merged another.
C12_Witness ==
  /\ IsSyncStack
  /\ \E i, j \in 1..Len(Results) :
       /\ Statuses[i].status = "synced"
       /\ Attempted(j)
       /\ Results[j].success
       /\ heads[Results[j].branch] # op.pre.heads[Results[j].branch]

IsStackStatus == op.name = "getStackSyncStatus" /\ op.ret.ok

\* The branches of the list getStackSyncStatus returned, in its order.
Listed == [i \in 1..Len(op.ret.value.branches) |-> op.ret.value.branches[i].branch]

\* The tracked branches whose stack name is the stack asked for.
MembersAtCall ==
  {b \in AllNames : /\ getBranchStack(op.pre.config, b).ok
                    /\ op.pre.config.stackname[b] = op.args[1]}

\* C13: the list getStackSyncStatus returns is root-first: the list starts
\* with a branch whose parent is the trunk, and every listed member whose
\* parent is another member of the stack stands after that parent.
C13_RootFirstOrder ==
  IsStackStatus =>
    /\ Len(Listed) > 0 =>
         op.pre.config.stackparent[Listed[1]] = op.ret.value.trunk
    /\ \A i \in 1..Len(Listed) :
         LET parent == op.pre.config.stackparent[Listed[i]]
         IN (parent \in MembersAtCall /\ parent # Listed[i]) =>
               \E j \in 1..(i - 1) : Listed[j] = parent

IsRestack == op.name = "restackBranches"

\* C14: restackBranches(stackName) sets the stored base commit of every
\* member branch to the current head of its parent and changes nothing else
\* (no head, not the checked-out branch, not the working tree, no stack name
\* or parent); afterwards every member branch has status synced.
C14_RestackSetsEveryBase ==
  (IsRestack /\ op.ret.ok) =>
     /\ \A b \in MembersAtCall :
          /\ config.stackbase[b] = revParse(World, config.stackparent[b])
          /\ getBranchSyncStatus(World, b, getBranchStack(config, b).value).status
               = "synced"
     /\ heads = op.pre.heads
     /\ current = op.pre.current
     /\ dirty = op.pre.dirty
     /\ wip = op.pre.wip
     /\ config.stackname = op.pre.config.stackname
     /\ config.stackparent = op.pre.config.stackparent
     /\ config.trunk = op.pre.config.trunk
     /\ config.root = op.pre.config.root
     /\ config.created = op.pre.config.created
     /\ \A b \in AllNames \ MembersAtCall :
          config.stackbase[b] = op.pre.config.stackbase[b]

\* C15: restackBranches never returns an error of kind SYNC_CONFLICT,
\* whatever the stack and the state of the repository.
C15_RestackNeverConflicts ==
  IsRestack => op.ret.code # "SYNC_CONFLICT"

\* A restackBranches call that re-recorded the base of a branch which a
\* rebase onto its parent would have had to replay.
C15_Witness ==
  /\ IsRestack
  /\ op.ret.ok
  /\ \E b \in MembersAtCall :
       LET parentHead == revParse(World, config.stackparent[b])
       IN /\ config.stackbase[b] # op.pre.config.stackbase[b]
          /\ ~InHistory(parentHead, heads[b])
          /\ ToReplay(heads[b], parentHead) # {}

\* The kinds a returned StackError can have (StackErrorCode).
StackErrorCodes ==
  {"NOT_IN_REPO", "BRANCH_NOT_FOUND", "STACK_NOT_FOUND", "STACK_EXISTS",
   "ALREADY_IN_STACK", "NOT_IN_STACK", "SYNC_CONFLICT", "UNCOMMITTED_CHANGES",
   "REMOTE_NOT_FOUND", "PR_EXISTS", "GITHUB_ERROR", "CONFIG_ERROR", "GIT_ERROR",
   "INVALID_TRUNK"}

\* A branch restackBranches goes through names a parent that does not resolve.
ParentUnresolvedAtCall ==
  \E fileOrder \in Orders :
    LET keys == getStackBranches(op.pre.config, op.args[1], fileOrder)
    IN \E i \in 1..Len(keys) :
         revParse(op.pre, op.pre.config.stackparent[keys[i]]) = NoCommit

\* C16: when the parent ref of a member branch cannot be resolved,
\* restackBranches hands its caller a tagged error value; no exception
\* escapes.
C16_RestackReturnsError ==
  (IsRestack /\ ParentUnresolvedAtCall) =>
     ~op.ret.ok /\ op.ret.code \in StackErrorCodes

IsInitStack == op.name = "initStack"

\* Stack `name` has metadata / branch `b` is tracked, in the store cfg.
HasStack(cfg, name) == cfg.trunk[name] # "" /\ cfg.root[name] # ""
Tracked(cfg, b) == cfg.stackname[b] # "" /\ cfg.stackparent[b] # ""

\* The failure C17 names for an initStack call, "" when it names none.
InitStackFailure ==
  LET stackName == op.args[1]
      trunk == op.args[2]
      rootBranch == op.args[3]
  IN IF trunk \notin AllNames \/ op.pre.heads[trunk] = NoCommit
       THEN "INVALID_TRUNK"
     ELSE IF HasStack(op.pre.config, stackName) THEN "STACK_EXISTS"
     ELSE IF Tracked(op.pre.config, rootBranch) THEN "ALREADY_IN_STACK"
     ELSE ""

\* C17: initStack(name, trunk, rootBranch) fails with INVALID_TRUNK if the
\* trunk does not exist, else STACK_EXISTS if the name has stack metadata,
\* else ALREADY_IN_STACK if rootBranch is tracked, in that order; a failed
\* call writes no key of the store.
C17_InitStackFailures ==
  IsInitStack =>
    /\ InitStackFailure # "" =>
         /\ ~op.ret.ok
         /\ op.ret.code = InitStackFailure
         /\ config = op.pre.config
    /\ ~op.ret.ok => config = op.pre.config

\* An initStack refused for a tracked root branch, under a free stack name.
C17_Witness ==
  /\ IsInitStack
  /\ op.ret.code = "ALREADY_IN_STACK"
  /\ ~HasStack(op.pre.config, op.args[1])
  /\ Tracked(op.pre.config, op.args[3])

\* The commit HEAD pointed at when the call in progress was made.
HeadAtCall == op.pre.heads[op.pre.current]

\* C18: after a successful initStack(name, trunk, root), getStackMetadata(name)
\* yields the {name, trunk, root, createdAt} the call returned, and
\* getBranchStack(root) yields {stackName: name, parent: trunk, baseCommit:
\* the HEAD commit at the call}.
C18_InitStackRoundTrip ==
  (IsInitStack /\ op.ret.ok) =>
    /\ op.ret.value.name = op.args[1]
    /\ op.ret.value.trunk = op.args[2]
    /\ op.ret.value.root = op.args[3]
    /\ getStackMetadata(config, op.args[1]) = stackOk(op.ret.value)
    /\ getBranchStack(config, op.args[3]) =
         stackOk([stackName |-> op.args[1], parent |-> op.args[2],
                  baseCommit |-> HeadAtCall])

\* A successful initStack made while HEAD was not at the root branch's head.
C18_Witness ==
  /\ IsInitStack
  /\ op.ret.ok
  /\ HeadAtCall # op.pre.heads[op.args[3]]

IsAddBranch == op.name = "addBranch"

\* The failure C19 names for an addBranch call, "" when it names none.
AddBranchFailure ==
  LET branchName == op.args[1]
      parentBranch == op.args[2]
      stackName == op.args[3]
  IN IF ~HasStack(op.pre.config, stackName) THEN "STACK_NOT_FOUND"
     ELSE IF ~Tracked(op.pre.config, parentBranch) THEN "NOT_IN_STACK"
     ELSE IF op.pre.config.stackname[parentBranch] # stackName
       THEN "CONFIG_ERROR"
     ELSE IF Tracked(op.pre.config, branchName) THEN "ALREADY_IN_STACK"
     ELSE ""

\* C19: addBranch(branch, parent, stack) fails with STACK_NOT_FOUND if the
\* stack has no metadata, else NOT_IN_STACK if the parent has no stack
\* metadata, else CONFIG_ERROR if the parent is tracked in a different stack,
\* else ALREADY_IN_STACK if the branch is already tracked, in that order; a
\* failed call leaves the metadata store unchanged.
C19_AddBranchFailures ==
  IsAddBranch =>
    /\ AddBranchFailure # "" =>
         /\ ~op.ret.ok
         /\ op.ret.code = AddBranchFailure
         /\ config = op.pre.config
    /\ ~op.ret.ok => config = op.pre.config

\* An addBranch refused because the parent belongs to another stack, for a
\* branch that is itself already tracked.
C19_Witness ==
  /\ IsAddBranch
  /\ op.ret.code = "CONFIG_ERROR"
  /\ Tracked(op.pre.config, op.args[1])

\* The branches getStackBranches(stackName) returns, for the config file
\* order fileOrder.
Members(stackName, fileOrder) ==
  Range(getStackBranches(config, stackName, fileOrder))

\* The branches b for which getBranchStack(b) succeeds with this stack name.
TrackedIn(stackName) ==
  {b \in AllNames : /\ getBranchStack(config, b).ok
                    /\ getBranchStack(config, b).value.stackName = stackName}

\* C20: for any branch name, after a successful addBranch(branch, parent,
\* stack) getBranchStack(branch) yields {stackName: stack, parent, baseCommit:
\* the HEAD commit at the call} and getStackBranches(stack) contains the
\* branch; getStackBranches(stack) contains exactly the branches b for which
\* getBranchStack(b) succeeds with stackName = stack.
C20_AddBranchRoundTrip ==
  /\ (IsAddBranch /\ op.ret.ok) =>
       /\ getBranchStack(config, op.args[1]) =
            stackOk([stackName |-> op.args[3], parent |-> op.args[2],
                     baseCommit |-> HeadAtCall])
       /\ op.ret.value = getBranchStack(config, op.args[1]).value
       /\ \A fileOrder \in Orders : op.args[1] \in Members(op.args[3], fileOrder)
  /\ \A stackName \in StackNames, fileOrder \in Orders :
       Members(stackName, fileOrder) = TrackedIn(stackName)

\* Branches A and B are both tracked and each names the other as parent.
MutualParents(cfg, A, B) ==
  /\ A # B
  /\ getBranchStack(cfg, A).ok
  /\ getBranchStack(cfg, B).ok
  /\ getBranchStack(cfg, A).value.parent = B
  /\ getBranchStack(cfg, B).value.parent = A

\* C21: after any sequence of initStack, addBranch, removeBranch, deleteStack
\* and updateBranchBase calls, no two tracked branches point at each other as
\* parent in the explicit metadata.
C21_NoMutualParents ==
  \A A \in AllNames, B \in AllNames : ~MutualParents(config, A, B)

IsDeleteStack == op.name = "deleteStack"

\* The keys of branch b / of stack s are the same in stores c1 and c2.
SameBranchKeys(c1, c2, b) ==
  /\ c1.stackname[b] = c2.stackname[b]
  /\ c1.stackparent[b] = c2.stackparent[b]
  /\ c1.stackbase[b] = c2.stackbase[b]
SameStackKeys(c1, c2, s) ==
  /\ c1.trunk[s] = c2.trunk[s]
  /\ c1.root[s] = c2.root[s]
  /\ c1.created[s] = c2.created[s]

\* C22: after deleteStack(name) returns success, getStackMetadata(name) fails
\* with STACK_NOT_FOUND and getBranchStack(b) fails with NOT_IN_STACK for
\* every branch b that was a member of the stack, while the metadata of every
\* other stack and of its branches is unchanged.
C22_DeleteStackCascades ==
  (IsDeleteStack /\ op.ret.ok) =>
    /\ getStackMetadata(config, op.args[1]) = stackErr("STACK_NOT_FOUND", NoDetails)
    /\ \A b \in MembersAtCall :
         getBranchStack(config, b) = stackErr("NOT_IN_STACK", NoDetails)
    /\ \A b \in AllNames \ MembersAtCall : SameBranchKeys(config, op.pre.config, b)
    /\ \A s \in StackNames \ {op.args[1]} : SameStackKeys(config, op.pre.config, s)

IsRemoveBranch == op.name = "removeBranch"

\* None of the three stack keys of branch b is present in the store cfg.
NoBranchKeys(cfg, b) ==
  /\ cfg.stackname[b] = ""
  /\ cfg.stackparent[b] = ""
  /\ cfg.stackbase[b] = NoCommit

\* C23: removeBranch(b) removes b's stack name, parent and base keys so that
\* getBranchStack(b) then fails with NOT_IN_STACK, and it is idempotent: on an
\* untracked branch it succeeds and leaves the store unchanged.
C23_RemoveBranchIdempotent ==
  IsRemoveBranch =>
    /\ op.ret.ok
    /\ NoBranchKeys(config, op.args[1])
    /\ getBranchStack(config, op.args[1]) = stackErr("NOT_IN_STACK", NoDetails)
    /\ NoBranchKeys(op.pre.config, op.args[1]) => config = op.pre.config

\* removeBranch called on a branch that has none of the keys.
C23_Witness ==
  /\ IsRemoveBranch
  /\ op.ret.ok
  /\ NoBranchKeys(op.pre.config, op.args[1])

\* A step keeps the record of every stack that exists before and after it,
\* and the stack name and parent of every branch tracked before and after it.
RecordsKept ==
  /\ \A s \in StackNames :
       (HasStack(config, s) /\ HasStack(config', s)) =>
         SameStackKeys(config, config', s)
  /\ \A b \in AllNames :
       (Tracked(config, b) /\ Tracked(config', b)) =>
         /\ config'.stackname[b] = config.stackname[b]
         /\ config'.stackparent[b] = config.stackparent[b]

\* C24: a stack's {trunk, root, createdAt} never change between its initStack
\* and its deletion, and a tracked branch's stackName and parent never change
\* while it stays tracked; the only field of an existing record that an
\* operation overwrites is the branch's baseCommit.
C24_MetadataMutatedAsDeclared == [][RecordsKept]_vars

\* A restack that overwrote the base commit of a branch that was tracked.
C24_Witness ==
  /\ IsRestack
  /\ op.ret.ok
  /\ \E b \in AllNames :
       /\ Tracked(op.pre.config, b)
       /\ Tracked(config, b)
       /\ config.stackbase[b] # op.pre.config.stackbase[b]

\* ================================================== heuristic detection
\* StackDetector (detector.ts): parents inferred from the commit graph.  The
\* file holds two variants of the class: the earlier one (lines 11-417) and
\* the current one (lines 431-918).
Variants == {"earlier", "current"}

\* The names tried first as candidates, in this order.
commonBases == <<"main", "master", "develop", "dev">>
IsCommonBase(b) == b \in Range(commonBases)

\* The drift a candidate may have moved past the merge base, per variant.
DriftThresholdEarlier == 10
DriftThreshold == 50
thresholdOf(variant) ==
  IF variant = "earlier" THEN DriftThresholdEarlier ELSE DriftThreshold

\* getCommitDistance returns null when rev-list fails.
NoDistance == -1

\* git rev-list --count <from>..<to>, from a commit to a branch name.
getCommitDistance(w, from, to) ==
  IF from = NoCommit \/ revParse(w, to) = NoCommit THEN NoDistance
  ELSE Cardinality(Anc(revParse(w, to)) \ Anc(from))

\* The candidate list: the common bases that are branches, then every other
\* branch in list order, without the branch itself.
candidateBranches(allBranches) ==
  SelectSeq(commonBases, LAMBDA b : b \in Range(allBranches))
    \o SelectSeq(allBranches, LAMBDA b : ~IsCommonBase(b))
candidatesOf(branch, allBranches) ==
  SelectSeq(candidateBranches(allBranches), LAMBDA c : c # branch)

Rejected == [accepted |-> FALSE, branch |-> "", distance |-> 0, priority |-> 0]
Accepted(candidate, distance, priority) ==
  [accepted |-> TRUE, branch |-> candidate, distance |-> distance,
   priority |-> priority]

\* The queries detectParentBranch makes for one candidate, and the queries
\* of a call that fail in the backend: a set of <<query, candidate>> pairs.
QueryKinds == {"mergeBase", "revParse", "distanceFromBase", "distanceToCandidate"}
NoFailures == {}
queryNeverFails(failed, kind, candidate) == FALSE
queryFails(failed, kind, candidate) == <<kind, candidate>> \in failed

\* What the three batches of detectParentBranch return for one candidate: a
\* failed merge-base query gives null, a failed rev-parse no head (the earlier
\* variant's task is rejected), a failed rev-list a null distance.
evaluateCandidate(w, branch, candidate, variant, failed) ==
  LET mergeBase == IF queryFails(failed, "mergeBase", candidate) THEN NoCommit
                   ELSE getMergeBase(w, branch, candidate)
      candidateHead == IF queryFails(failed, "revParse", candidate) THEN NoCommit
                       ELSE revParse(w, candidate)
      isExactMatch == candidateHead = mergeBase
      distanceFromBase ==
        IF queryFails(failed, "distanceFromBase", candidate) THEN NoDistance
        ELSE getCommitDistance(w, mergeBase, branch)
      distanceToCandidate ==
        IF queryFails(failed, "distanceToCandidate", candidate) THEN NoDistance
        ELSE getCommitDistance(w, mergeBase, candidate)
      withinDrift == /\ distanceToCandidate # NoDistance
                     /\ distanceToCandidate <= thresholdOf(variant)
  IN IF mergeBase = NoCommit \/ candidateHead = NoCommit THEN Rejected
     ELSE IF variant = "earlier"
       THEN IF distanceFromBase = NoDistance \/ distanceFromBase = 0
              THEN Rejected
            ELSE IF isExactMatch THEN Accepted(candidate, distanceFromBase, 0)
            ELSE IF withinDrift THEN Accepted(candidate, distanceFromBase, 1)
            ELSE Rejected
     ELSE IF distanceFromBase = NoDistance THEN Rejected
     ELSE IF distanceFromBase = 0 /\ ~isExactMatch THEN Rejected
     ELSE IF isExactMatch THEN Accepted(candidate, distanceFromBase, 0)
     ELSE IF withinDrift
       THEN Accepted(candidate, distanceFromBase,
                     IF IsCommonBase(candidate) THEN 1 ELSE 2)
     ELSE Rejected

\* The accepted candidates, in candidate order.
RECURSIVE potentialParents(_, _, _, _, _)
potentialParents(w, branch, cands, variant, failed) ==
  IF cands = <<>> THEN <<>>
  ELSE LET r == evaluateCandidate(w, branch, Head(cands), variant, failed)
           rest == potentialParents(w, branch, Tail(cands), variant, failed)
       IN IF r.accepted THEN <<r>> \o rest ELSE rest

\* The comparison that looks at the distance alone.
sortsBeforeByDistance(x, y) == x.distance < y.distance

\* The sort comparison: by priority, then by distance.
sortsBefore(x, y) ==
  IF x.priority # y.priority THEN x.priority < y.priority
  ELSE x.distance < y.distance

\* The first element after the stable sort: the earliest of the minimal ones.
firstSorted(ps) ==
  LET best == {i \in 1..Len(ps) : \A j \in 1..Len(ps) : ~sortsBefore(ps[j], ps[i])}
  IN ps[CHOOSE i \in best : \A j \in best : i <= j]

\* detectParentBranch: the parent's name, "" for null.
detectParentBranch(w, branch, allBranches, variant, failed) ==
  LET ps == potentialParents(w, branch, candidatesOf(branch, allBranches),
                             variant, failed)
  IN IF ps = <<>> THEN "" ELSE firstSorted(ps).branch

\* JavaScript's < on the branch names of the model: the names in code unit
\* order.
SortedNames == <<"a", "b", "dev", "fix.1", "main">>
NameRank(n) == CHOOSE i \in 1..Len(SortedNames) : SortedNames[i] = n
lessThan(x, y) == NameRank(x) < NameRank(y)

\* The pass that ignores the configuration.
explicitParentsIgnored(branches, branchParents) ==
  [b \in Range(branches) |-> ""]

\* First pass: the configured parent, when it is one of the listed branches.
explicitParents(branches, branchParents) ==
  [b \in Range(branches) |->
     IF branchParents[b] # "" /\ branchParents[b] \in Range(branches)
     THEN branchParents[b] ELSE ""]

\* Second pass: the heuristic parent of every branch that has none yet.
RECURSIVE heuristicPass(_, _, _, _)
heuristicPass(w, branches, parents, todo) ==
  IF todo = <<>> THEN parents
  ELSE LET b == Head(todo)
           next == IF parents[b] # "" THEN parents
                   ELSE [parents EXCEPT
                           ![b] = detectParentBranch(w, b, branches, "current",
                                                     NoFailures)]
       IN heuristicPass(w, branches, next, Tail(todo))

\* In a 2-cycle met at branchName: TRUE when the parent's parent pointer is
\* the one cleared, FALSE when branchName's own pointer is.
clearsParentOfParent(branchName, parent) ==
  IF IsCommonBase(parent) /\ ~IsCommonBase(branchName) THEN TRUE
  ELSE IF IsCommonBase(branchName) /\ ~IsCommonBase(parent) THEN FALSE
  ELSE lessThan(branchName, parent)

\* The pass that never breaks a cycle.
breakCyclesSkipped(parents, todo) == parents

\* Third pass: walk the branches in list order and break each 2-cycle met.
RECURSIVE breakCycles(_, _)
breakCycles(parents, todo) ==
  IF todo = <<>> THEN parents
  ELSE LET branchName == Head(todo)
           parent == parents[branchName]
           next ==
             IF parent # "" /\ parents[parent] = branchName
             THEN IF clearsParentOfParent(branchName, parent)
                  THEN [parents EXCEPT ![parent] = ""]
                  ELSE [parents EXCEPT ![branchName] = ""]
             ELSE parents
       IN breakCycles(next, Tail(todo))

\* The pass that lists no children.
childrenNone(parents, branches, p) == <<>>

\* Fourth pass: the children lists, in list order.
childrenOf(parents, branches, p) ==
  SelectSeq(branches, LAMBDA c : parents[c] = p)

\* buildRelationships of the current variant: the parent pointers after the
\* first two passes (passes) and the relationships returned (final).
buildRelationships(w, branches, branchParents) ==
  LET explicit == explicitParents(branches, branchParents)
      passes == heuristicPass(w, branches, explicit, branches)
      resolved == breakCycles(passes, branches)
  IN [passes |-> passes,
      final |-> [b \in Range(branches) |->
                   [branch |-> b, parent |-> resolved[b],
                    children |-> childrenOf(resolved, branches, b)]]]

\* --------------------------------------------------------- groupIntoStacks
\* The stack roots: the branches without a parent and those with children,
\* in list order.
stackRoots(relationships, branches) ==
  SelectSeq(branches,
            LAMBDA b : \/ relationships[b].parent = ""
                       \/ Len(relationships[b].children) > 0)

\* The sub-stack roots: the branches with a parent and with children.
subStackRoots(relationships, branches) ==
  {b \in Range(branches) : /\ relationships[b].parent # ""
                            /\ Len(relationships[b].children) > 0}

\* The traversal that leaves no child out.
skipsNoChild(child, root, subs) == FALSE

\* A child is left out of the stack being built when it is a sub-stack root
\* other than the root of this stack.
skipsChild(child, root, subs) == child # root /\ child \in subs

\* The breadth-first traversal from a root: the branches of its stack in the
\* order they are visited.  The traversal state is the queue, the visited
\* set and the branches collected so far.
collectBranches(relationships, root, subs) ==
  LET traverse[st \in [queue : Seq(DOMAIN relationships),
                       visited : SUBSET DOMAIN relationships,
                       acc : Seq(DOMAIN relationships)]] ==
        IF st.queue = <<>> THEN st.acc
        ELSE LET visiting == Head(st.queue)
             IN IF visiting \in st.visited
                THEN traverse[[st EXCEPT !.queue = Tail(st.queue)]]
                ELSE traverse[
                       [queue |-> Tail(st.queue)
                                  \o SelectSeq(relationships[visiting].children,
                                       LAMBDA child : ~skipsChild(child, root, subs)),
                        visited |-> st.visited \cup {visiting},
                        acc |-> Append(st.acc, visiting)]]
  IN traverse[[queue |-> <<root>>, visited |-> {}, acc |-> <<>>]]

\* buildStackNodes: the depth of every branch reachable from the root through
\* children lists, breadth first; queue entries are <<branch, depth>>.
depthsFrom(relationships, root) ==
  LET walk[st \in [queue : Seq((DOMAIN relationships) \X Nat),
                   depths : Seq((DOMAIN relationships) \X Nat)]] ==
        IF st.queue = <<>> THEN st.depths
        ELSE LET branch == Head(st.queue)[1]
                 depth == Head(st.queue)[2]
                 children == relationships[branch].children
             IN IF \E i \in 1..Len(st.depths) : st.depths[i][1] = branch
                THEN walk[[st EXCEPT !.queue = Tail(st.queue)]]
                ELSE walk[
                       [queue |-> Tail(st.queue)
                                  \o [i \in 1..Len(children) |->
                                        <<children[i], depth + 1>>],
                        depths |-> Append(st.depths, <<branch, depth>>)]]
  IN walk[[queue |-> << <<root, 0>> >>, depths |-> <<>>]]

\* The depth recorded for a branch.
depthOf(depths, b) ==
  depths[CHOOSE i \in 1..Len(depths) : depths[i][1] = b][2]

\* One detected stack: its root, its branches and the depth of each node.
stackOf(relationships, branches, root) ==
  LET members == collectBranches(relationships, root,
                                 subStackRoots(relationships, branches))
  IN [root |-> root,
      branches |-> members,
      depth |-> [b \in Range(members) |->
                   depthOf(depthsFrom(relationships, root), b)]]

\* groupIntoStacks: the stacks by root.
groupIntoStacks(relationships, branches) ==
  [root \in Range(stackRoots(relationships, branches)) |->
     stackOf(relationships, branches, root)]

\* ------------------------------------------------- the memoization caches
\* A key of one of the three caches: kind "mergeBase" (branch1:branch2),
\* "revParse" (ref) or "distance" (from:to).
mergeBaseKey(branch1, branch2) ==
  [kind |-> "mergeBase", x |-> branch1, y |-> branch2, from |-> NoCommit]
revParseKey(ref) ==
  [kind |-> "revParse", x |-> ref, y |-> "", from |-> NoCommit]
distanceKey(from, to) ==
  [kind |-> "distance", x |-> "", y |-> to, from |-> from]

\* The keys of a batch that go to the backend: each task of the batch looks
\* its key up when it starts, and a task stores its result only after its
\* query has come back, that is after every task of the batch has started.
issued(keys, cache) == SelectSeq(keys, LAMBDA k : k \notin cache)

\* The backend queries of one detectParentBranch call of the current variant
\* that starts with the given cache contents, in the order they are issued.
queriesOfCall(w, branch, allBranches, cache) ==
  LET cands == candidatesOf(branch, allBranches)
      batch1 == [i \in 1..Len(cands) |-> mergeBaseKey(branch, cands[i])]
      valid == SelectSeq(cands,
                 LAMBDA c : getMergeBase(w, branch, c) # NoCommit)
      batch2 == [i \in 1..Len(valid) |-> revParseKey(valid[i])]
      withHead == SelectSeq(valid, LAMBDA c : revParse(w, c) # NoCommit)
      batch3 == [i \in 1..Len(withHead) |->
                   distanceKey(getMergeBase(w, branch, withHead[i]), branch)]
      further == SelectSeq(withHead,
                   LAMBDA c :
                     LET mergeBase == getMergeBase(w, branch, c)
                         d == getCommitDistance(w, mergeBase, branch)
                     IN /\ d # NoDistance
                        /\ revParse(w, c) # mergeBase
                        /\ d # 0)
      batch4 == [i \in 1..Len(further) |->
                   distanceKey(getMergeBase(w, branch, further[i]), further[i])]
      q1 == issued(batch1, cache)
      q2 == issued(batch2, cache \cup Range(q1))
      q3 == issued(batch3, cache \cup Range(q1) \cup Range(q2))
      q4 == issued(batch4, cache \cup Range(q1) \cup Range(q2) \cup Range(q3))
  IN IF Len(valid) = 0 THEN q1 ELSE q1 \o q2 \o q3 \o q4

\* The backend queries of the second pass: one detectParentBranch call after
\* the other, for the branches without an explicit parent, the caches filling
\* up from call to call.
RECURSIVE queriesOfPass(_, _, _, _, _)
queriesOfPass(w, branches, explicit, todo, log) ==
  IF todo = <<>> THEN log
  ELSE LET b == Head(todo)
           more == IF explicit[b] # "" THEN <<>>
                   ELSE queriesOfCall(w, b, branches, Range(log))
       IN queriesOfPass(w, branches, explicit, Tail(todo), log \o more)

\* ------------------------------------------- the repository under detection
\* Repository steps made while detection is exercised.
MaxDetectSteps == 4

\* Repository steps made while the drift threshold is exercised.
MaxDriftSteps == 3

\* The longest history the trunk gets.
MaxTrunkCommits == 55

\* The branches detection is run on, and the number of commits a pull brings.
DetectNames == {"main", "dev", "a", "b"}
PullSizes == {10, 50}

\* n commits on top of commit c, each labelled with the branch.
RECURSIVE commitsOn(_, _, _)
commitsOn(c, label, n) ==
  IF n = 0 THEN c ELSE commitsOn(<<label, {c}>>, label, n - 1)

\* The first commit of a history unrelated to the root commit's
\* (git checkout --orphan).
OrphanCommit == <<"o", {}>>

\* A repository whose branches sit on the root commit; main and a exist, b
\* may, and dev may exist on the root commit or on an unrelated history.
InitDetect ==
  /\ heads \in {h \in [AllNames -> {RootCommit, OrphanCommit, NoCommit}] :
                  /\ h["main"] = RootCommit
                  /\ h["a"] = RootCommit
                  /\ h["b"] \in {RootCommit, NoCommit}
                  /\ h["fix.1"] = NoCommit}
  /\ current = "main"
  /\ dirty = FALSE
  /\ wip = NoWip
  /\ config = EmptyConfig
  /\ nUser = 0
  /\ op = Idle

\* A commit lands on branch b (git commit on it, or a fetch into it).
DetectCommit(b) ==
  /\ op = Idle
  /\ nUser < MaxDetectSteps
  /\ heads[b] # NoCommit
  /\ heads' = [heads EXCEPT ![b] = commitsOn(heads[b], b, 1)]
  /\ nUser' = nUser + 1
  /\ UNCHANGED <<current, dirty, wip, config, op>>

\* git pull on the trunk: main moves forward by n commits.
UserPull(n) ==
  /\ op = Idle
  /\ nUser < MaxDriftSteps
  /\ Cardinality(Anc(heads["main"])) + n <= MaxTrunkCommits
  /\ heads' = [heads EXCEPT !["main"] = commitsOn(heads["main"], "main", n)]
  /\ nUser' = nUser + 1
  /\ UNCHANGED <<current, dirty, wip, config, op>>

\* git branch -f <b> <from>: b is put on the commit of another branch.
UserResetBranch(b, from) ==
  /\ op = Idle
  /\ nUser < MaxDetectSteps
  /\ b # current
  /\ heads[b] # NoCommit
  /\ heads[from] # NoCommit
  /\ heads[from] # heads[b]
  /\ heads' = [heads EXCEPT ![b] = heads[from]]
  /\ nUser' = nUser + 1
  /\ UNCHANGED <<current, dirty, wip, config, op>>

\* git for-each-ref refs/heads: the branches that exist, in refname order;
\* detectStacks takes any list, so the reverse order is tried as well.
ListOrders == {SortedNames, <<"main", "fix.1", "dev", "b", "a">>}
listBranches(w, order) == SelectSeq(order, LAMBDA b : w.heads[b] # NoCommit)

\* The branchParents settings tried: none, a 2-cycle between two plain
\* branches, between two common trunk names, between a trunk and a plain
\* branch, a 3-cycle, and a branch configured as its own parent.
NoParents == [b \in AllNames |-> ""]
ParentConfigs ==
  { NoParents,
    [NoParents EXCEPT !["a"] = "b", !["b"] = "a"],
    [NoParents EXCEPT !["main"] = "dev", !["dev"] = "main"],
    [NoParents EXCEPT !["a"] = "main", !["main"] = "a"],
    [NoParents EXCEPT !["a"] = "b", !["b"] = "dev", !["dev"] = "a"],
    [NoParents EXCEPT !["b"] = "b"] }

\* StackDetector.buildRelationships(branches), current variant, with the
\* queries it sent to the backend.
BuildRelationships(order, branchParents) ==
  /\ op = Idle
  /\ LET branches == listBranches(World, order)
         r == buildRelationships(World, branches, branchParents)
     IN op' = [name |-> "buildRelationships",
               args |-> <<branches, branchParents>>,
               pre |-> World,
               passes |-> r.passes,
               ret |-> r.final,
               log |-> queriesOfPass(World, branches,
                         explicitParents(branches, branchParents),
                         branches, <<>>)]
  /\ UNCHANGED <<heads, current, dirty, wip, config, nUser>>

\* StackDetector.detectStacks(branches, worktrees), current variant: the
\* relationships, then the stacks grouped from them.
DetectStacks(order, branchParents) ==
  /\ op = Idle
  /\ \E branches \in {listBranches(World, order)} :
       \E relationships \in
            {buildRelationships(World, branches, branchParents).final} :
         op' = [name |-> "detectStacks",
                args |-> <<branches, branchParents>>,
                pre |-> World,
                relationships |-> relationships,
                ret |-> groupIntoStacks(relationships, branches)]
  /\ UNCHANGED <<heads, current, dirty, wip, config, nUser>>

\* StackDetector.detectParentBranch(branch, allBranches) of either variant,
\* with the queries of the call that fail.
DetectParentBranch(branch, order, variant, failed) ==
  /\ op = Idle
  /\ heads[branch] # NoCommit
  /\ LET allBranches == listBranches(World, order)
     IN op' = [name |-> "detectParentBranch",
               args |-> <<branch, allBranches, variant, failed>>,
               pre |-> World,
               ret |-> detectParentBranch(World, branch, allBranches, variant,
                                          failed)]
  /\ UNCHANGED <<heads, current, dirty, wip, config, nUser>>

NextDetect ==
  \/ \E b \in DetectNames : DetectCommit(b)
  \/ \E b \in DetectNames, from \in DetectNames : UserResetBranch(b, from)
  \/ Return
  \/ \E order \in ListOrders, branchParents \in ParentConfigs :
       BuildRelationships(order, branchParents)
  \/ \E order \in ListOrders, branchParents \in ParentConfigs :
       DetectStacks(order, branchParents)
  \/ \E branch \in DetectNames, order \in ListOrders, variant \in Variants :
       DetectParentBranch(branch, order, variant, NoFailures)

SpecDetect == InitDetect /\ [][NextDetect]_vars

\* Detection of a parent while the trunk moves far ahead of the branches.
DriftCommit(b) == nUser < MaxDriftSteps /\ DetectCommit(b)

NextDrift ==
  \/ \E b \in DetectNames : DriftCommit(b)
  \/ \E n \in PullSizes : UserPull(n)
  \/ Return
  \/ \E branch \in DetectNames, variant \in Variants :
       DetectParentBranch(branch, SortedNames, variant, NoFailures)

SpecDrift == InitDetect /\ [][NextDrift]_vars

IsDetectParent == op.name = "detectParentBranch"

\* The candidates of the call in progress that detectParentBranch accepts.
AcceptedAtCall ==
  {c \in Range(candidatesOf(op.args[1], op.args[2])) :
     evaluateCandidate(op.pre, op.args[1], c, op.args[3], op.args[4]).accepted}

\* The candidate's head is the merge base of the branch and the candidate.
ExactAtCall(c) ==
  op.pre.heads[c] = MergeBaseOf(op.pre.heads[op.args[1]], op.pre.heads[c])

\* Commits of the branch past its merge base with candidate c.
DistanceAtCall(c) ==
  countCommits(MergeBaseOf(op.pre.heads[op.args[1]], op.pre.heads[c]),
               op.pre.heads[op.args[1]])

\* C25: if some accepted candidate's head equals merge-base(B, candidate)
\* exactly, detectParentBranch returns an exact-match candidate and never a
\* non-exact one, whatever the candidates' distances and names are.
C25_ExactMatchWins ==
  IsDetectParent =>
    ((\E c \in AcceptedAtCall : ExactAtCall(c)) =>
       (op.ret \in AcceptedAtCall /\ ExactAtCall(op.ret)))

\* A call with an accepted exact match and an accepted candidate that is no
\* exact match and lies closer to the branch.
C25_Witness ==
  /\ IsDetectParent
  /\ op.args[3] = "current"
  /\ \E c \in AcceptedAtCall, d \in AcceptedAtCall :
       /\ ExactAtCall(c)
       /\ ~ExactAtCall(d)
       /\ DistanceAtCall(d) < DistanceAtCall(c)
       /\ op.ret = c

IsBuild == op.name = "buildRelationships"

\* A and B point at each other after the first two passes of the call.
CycleAfterPasses(A, B) ==
  /\ A \in Range(op.args[1])
  /\ B \in Range(op.args[1])
  /\ A # B
  /\ op.passes[A] = B
  /\ op.passes[B] = A

\* In the relationships returned, root has no parent and is the parent of
\* other.
SurvivingRoot(root, other) ==
  /\ op.ret[root].parent = ""
  /\ op.ret[other].parent = root

\* C26: if after the explicit-config pass and the heuristic pass A.parent = B
\* and B.parent = A, then after cycle resolution exactly one of A and B has
\* parent = null and the other still has the first as its parent.
C26_TwoCycleBroken ==
  IsBuild =>
    \A A \in AllNames, B \in AllNames :
      CycleAfterPasses(A, B) => (SurvivingRoot(A, B) \/ SurvivingRoot(B, A))

\* A call whose first two passes left a 2-cycle that came from the heuristic.
C26_Witness ==
  /\ IsBuild
  /\ op.args[2] = NoParents
  /\ \E A \in AllNames, B \in AllNames : CycleAfterPasses(A, B)

\* The branch C27 names as the surviving root of a 2-cycle between A and B.
PreferredRoot(A, B) ==
  IF IsCommonBase(A) /\ ~IsCommonBase(B) THEN A
  ELSE IF IsCommonBase(B) /\ ~IsCommonBase(A) THEN B
  ELSE IF lessThan(A, B) THEN A ELSE B

\* C27: in 2-cycle resolution between A and B the surviving root (left with
\* parent = null, and still the other's parent) is the one that is a common
\* trunk name when exactly one of them is; when both or neither are, it is the
\* branch that sorts earlier alphabetically.
C27_SurvivingRootRule ==
  IsBuild =>
    \A A \in AllNames, B \in AllNames :
      CycleAfterPasses(A, B) =>
        SurvivingRoot(PreferredRoot(A, B),
                      IF PreferredRoot(A, B) = A THEN B ELSE A)

\* The branches met when following parent pointers from b for n steps.
RECURSIVE ParentChain(_, _, _)
ParentChain(rel, b, n) ==
  IF n = 0 \/ rel[b].parent = "" THEN <<b>>
  ELSE <<b>> \o ParentChain(rel, rel[b].parent, n - 1)

\* Following parent pointers from b ends at a branch without parent and
\* meets no branch twice.
ReachesRoot(rel, b) ==
  LET chain == ParentChain(rel, b, Cardinality(DOMAIN rel))
  IN /\ rel[chain[Len(chain)]].parent = ""
     /\ \A i \in 1..Len(chain), j \in 1..Len(chain) :
          chain[i] = chain[j] => i = j

\* C28: after buildRelationships finishes cycle resolution the detected parent
\* graph is acyclic for every input, explicit branchParents configuration
\* included: following parent pointers from any branch reaches a branch with
\* parent = null without revisiting a branch.
C28_ParentGraphAcyclic ==
  IsBuild => \A b \in Range(op.args[1]) : ReachesRoot(op.ret, b)

\* C29: within one detectStacks pass no key of the merge-base, rev-parse or
\* commit-distance cache goes to the version-control backend twice, the
\* concurrently issued queries of one detectParentBranch call included.
KeysOfKind(kind) ==
  SelectSeq(op.log, LAMBDA k : k.kind = kind)
QueriedOnce(log) ==
  \A i, j \in 1..Len(log) : log[i] = log[j] => i = j
C29_EachKeyQueriedOnce ==
  IsBuild => QueriedOnce(op.log)

\* Commits of candidate c past its merge base with the branch of the call.
DriftAtCall(c) ==
  countCommits(MergeBaseOf(op.pre.heads[op.args[1]], op.pre.heads[c]),
               op.pre.heads[c])

\* The acceptance rule: a merge base exists, and the candidate either sits on
\* it or the branch is ahead of it and the candidate has moved past it by no
\* more than the drift threshold of the variant called.
RuleAccepts(c) ==
  /\ MergeBaseOf(op.pre.heads[op.args[1]], op.pre.heads[c]) # NoCommit
  /\ \/ ExactAtCall(c)
     \/ /\ DistanceAtCall(c) > 0
        /\ DriftAtCall(c) <= thresholdOf(op.args[3])
RulePriority(c) ==
  IF ExactAtCall(c) THEN 0 ELSE IF IsCommonBase(c) THEN 1 ELSE 2
RuleBefore(c, d) ==
  \/ RulePriority(c) < RulePriority(d)
  \/ RulePriority(c) = RulePriority(d) /\ DistanceAtCall(c) < DistanceAtCall(d)
RuleAccepted == {c \in Range(op.args[2]) \ {op.args[1]} : RuleAccepts(c)}

\* C30: detectParentBranch returns an accepted candidate that is minimal in
\* (priority, distanceFromBase), or null when no candidate is accepted; a
\* candidate other than the branch is accepted iff it has a merge base with
\* the branch and is an exact match (priority 0), or the branch is ahead of
\* the merge base and the candidate is at most the drift threshold past it
\* (priority 1 for a common trunk name, otherwise 2).
C30_MinimalAcceptedCandidate ==
  IsDetectParent =>
    IF RuleAccepted = {} THEN op.ret = ""
    ELSE /\ op.ret \in RuleAccepted
         /\ \A d \in RuleAccepted : ~RuleBefore(d, op.ret)

\* ------------------------------------------------ detection on a failing backend
\* The most queries of one call that fail.
MaxFailures == 2

\* The sets of failing queries tried.
FailureSets ==
  {f \in SUBSET (QueryKinds \X DetectNames) : Cardinality(f) <= MaxFailures}

NextFailing ==
  \/ \E b \in DetectNames : DriftCommit(b)
  \/ Return
  \/ \E branch \in DetectNames, variant \in Variants, failed \in FailureSets :
       DetectParentBranch(branch, SortedNames, variant, failed)

SpecFailing == InitDetect /\ [][NextFailing]_vars

\* Candidate c of the call in progress had a query fail: its merge-base query,
\* or with a merge base its rev-parse or first rev-list, or the second
\* rev-list when the candidate is not on the merge base and the branch is
\* ahead of it.
FailedAtCall(c) ==
  LET failed == op.args[4]
      mergeBase == MergeBaseOf(op.pre.heads[op.args[1]], op.pre.heads[c])
  IN \/ <<"mergeBase", c>> \in failed
     \/ /\ mergeBase # NoCommit
        /\ \/ <<"revParse", c>> \in failed
           \/ <<"distanceFromBase", c>> \in failed
           \/ /\ <<"distanceToCandidate", c>> \in failed
              /\ ~ExactAtCall(c)
              /\ DistanceAtCall(c) > 0

\* The listed branches without the candidates that had a query fail.
RemainingAtCall ==
  SelectSeq(op.args[2], LAMBDA c : c = op.args[1] \/ ~FailedAtCall(c))

\* C31: when queries of a detectParentBranch call fail, the call still
\* returns a parent or null, and what it returns is what the candidates
\* without a failed query give: a candidate with a failed query is discarded
\* and the others are evaluated as if it were not listed.
C31_FailedQueriesDiscarded ==
  IsDetectParent =>
    /\ op.ret \in Range(RemainingAtCall) \cup {""}
    /\ op.ret # op.args[1]
    /\ op.ret = detectParentBranch(op.pre, op.args[1], RemainingAtCall,
                                   op.args[3], NoFailures)

\* A call of the current variant where the candidate that would have been
\* returned has a failed query and another candidate is returned instead.
C31_Witness ==
  /\ IsDetectParent
  /\ op.args[3] = "current"
  /\ op.args[4] # NoFailures
  /\ op.ret # ""
  /\ LET best == detectParentBranch(op.pre, op.args[1], op.args[2],
                                    op.args[3], NoFailures)
     IN best # "" /\ best # op.ret /\ FailedAtCall(best)

ConfiguredAtCall(b) ==
  IF op.args[2][b] \in Range(op.args[1]) THEN op.args[2][b] ELSE ""

\* C33: a branch whose configured parent is one of the listed branches has
\* that parent after the first two passes, no merge-base query is made on its
\* behalf, and in the relationships returned it still has that parent unless
\* it stood in a 2-cycle and the cycle pass cleared it.
C33_ExplicitParentFirst ==
  IsBuild =>
    \A b \in Range(op.args[1]) :
      ConfiguredAtCall(b) # "" =>
        /\ op.passes[b] = ConfiguredAtCall(b)
        /\ \A i \in 1..Len(op.log) :
             ~(op.log[i].kind = "mergeBase" /\ op.log[i].x = b)
        /\ \/ op.ret[b].parent = ConfiguredAtCall(b)
           \/ /\ op.ret[b].parent = ""
              /\ op.passes[ConfiguredAtCall(b)] = b

\* A call where a branch keeps a configured parent that the heuristic would
\* not have chosen, while another branch gets its parent from the heuristic.
C33_Witness ==
  /\ IsBuild
  /\ \E b \in Range(op.args[1]) :
       /\ ConfiguredAtCall(b) # ""
       /\ op.ret[b].parent = ConfiguredAtCall(b)
       /\ detectParentBranch(op.pre, b, op.args[1], "current", NoFailures)
            \notin {"", ConfiguredAtCall(b)}
  /\ \E c \in Range(op.args[1]) :
       ConfiguredAtCall(c) = "" /\ op.ret[c].parent # ""

IsDetectStacks == op.name = "detectStacks"

\* The roots of the stacks that list branch b in the call in progress.
StacksListing(b) ==
  {root \in DOMAIN op.ret : b \in Range(op.ret[root].branches)}

RECURSIVE ReachesTrunk(_, _, _, _)
ReachesTrunk(cfg, b, stackName, n) ==
  /\ n > 0
  /\ getBranchStack(cfg, b).ok
  /\ getBranchStack(cfg, b).value.stackName = stackName
  /\ LET parent == getBranchStack(cfg, b).value.parent
     IN \/ parent = getStackMetadata(cfg, stackName).value.trunk
        \/ ReachesTrunk(cfg, parent, stackName, n - 1)

\* Branch b comes back to target within n parent steps.
RECURSIVE ComesBackTo(_, _, _, _)
ComesBackTo(cfg, b, target, n) ==
  /\ n > 0
  /\ getBranchStack(cfg, b).ok
  /\ LET parent == getBranchStack(cfg, b).value.parent
     IN parent = target \/ ComesBackTo(cfg, parent, target, n - 1)

\* C35: whatever StackManager calls were made, the stored metadata is a
\* well-formed forest: every tracked branch names an existing stack, its
\* parent chain stays within the tracked branches of that stack and ends at
\* the stack's trunk, and no branch is its own ancestor.
C35_MetadataIsForest ==
  \A b \in AllNames :
    getBranchStack(config, b).ok =>
      LET stackName == getBranchStack(config, b).value.stackName
      IN /\ getStackMetadata(config, stackName).ok
         /\ ReachesTrunk(config, b, stackName, Cardinality(AllNames))
         /\ ~ComesBackTo(config, b, b, Cardinality(AllNames))

\* The branches getStackBranches returns for the stack of the call.
StackBranchesAtCall ==
  UNION {Range(getStackBranches(op.pre.config, op.args[1], fileOrder)) :
           fileOrder \in Orders}

\* C36: a successful getStackSyncStatus lists every member of the stack
\* exactly once: the branches of its result are the branches getStackBranches
\* returns, whatever the parent pointers of the members are, and none is
\* listed twice.
C36_StatusListsEveryMember ==
  IsStackStatus =>
    /\ Range(Listed) = StackBranchesAtCall
    /\ \A i, j \in 1..Len(Listed) : Listed[i] = Listed[j] => i = j

\* The status getStackSyncStatus gives in the current state for the root
\* branch of the initStack call that has just returned.
RootStatusNow(fileOrder) ==
  LET st == getStackSyncStatus(World, op.args[1], fileOrder)
  IN {st.value.branches[i] : i \in {j \in 1..Len(st.value.branches) :
                                      st.value.branches[j].branch = op.args[3]}}

\* C37: right after a successful initStack(name, trunk, root), no ref having
\* moved, the base commit recorded for root is the commit where root forked
\* from trunk, and getStackSyncStatus(name) succeeds, reports root as synced
\* and says that nothing needs a sync.
C37_InitStackBaseIsForkPoint ==
  (IsInitStack /\ op.ret.ok) =>
    /\ getBranchStack(config, op.args[3]).value.baseCommit
         = MergeBaseOf(heads[op.args[3]], heads[op.args[2]])
    /\ \A fileOrder \in Orders :
         LET st == getStackSyncStatus(World, op.args[1], fileOrder)
         IN /\ st.ok
            /\ RootStatusNow(fileOrder) # {}
            /\ \A s \in RootStatusNow(fileOrder) : s.status = "synced"
            /\ ~st.value.needsSync

\* C38: when syncBranch returns an error, whichever it is, the stored
\* metadata of every stack and branch is what it was before the call.
C38_FailedSyncKeepsMetadata ==
  (IsSyncBranch /\ ~op.ret.ok) => config = op.pre.config

\* A syncBranch that ran its rebase or merge, failed, and left the recorded
\* base behind the parent's head.
C38_Witness ==
  /\ IsSyncBranch
  /\ ~op.ret.ok
  /\ op.stepExit > 0
  /\ op.ret.code \in {"SYNC_CONFLICT", "GIT_ERROR"}
  /\ heads[op.pre.config.stackparent[op.args[1]]] # NoCommit
  /\ config.stackbase[op.args[1]] # heads[op.pre.config.stackparent[op.args[1]]]

\* ------------------------------------------- the ordering on any metadata
\* The stored metadata is a git config file anyone can edit: stack s with
\* trunk main, and every branch of Names untracked or tracked in s with any
\* branch of Names as its parent (itself and the trunk included).
OrderConfigs ==
  {[trunk |-> [EmptyConfig.trunk EXCEPT !["s"] = "main"],
    root |-> [EmptyConfig.root EXCEPT !["s"] = "a"],
    created |-> [EmptyConfig.created EXCEPT !["s"] = "t1"],
    stackname |-> [b \in AllNames |-> IF p[b] = "" THEN "" ELSE "s"],
    stackparent |-> p,
    stackbase |-> [b \in AllNames |-> IF p[b] = "" THEN NoCommit ELSE RootCommit]] :
     p \in {q \in [AllNames -> Names \cup {""}] :
              \A b \in AllNames \ Names : q[b] = ""}}

InitOrder ==
  /\ heads = [b \in AllNames |-> RootCommit]
  /\ current = "main"
  /\ dirty = FALSE
  /\ wip = NoWip
  /\ config \in OrderConfigs
  /\ nUser = 0
  /\ op = Idle

NextOrder ==
  \/ ManagerCommit("main")
  \/ Return
  \/ GetStackSyncStatus("s")
  \/ \E impl \in Impls : SyncStack("s", impl)

SpecOrder == InitOrder /\ [][NextOrder]_vars

\* The branches of a status list, in its order.
BranchesOf(statuses) == [i \in 1..Len(statuses) |-> statuses[i].branch]
NoRepeat(q) == \A i, j \in 1..Len(q) : q[i] = q[j] => i = j

\* C39: on any stored metadata, cycles of parent pointers and branches that
\* are their own parent included, the root-first ordering of
\* getStackSyncStatus and syncStack ends with a list that names no branch
\* twice and only members of the stack, and syncStack returns no more
\* results than the list has entries.
C39_OrderingEndsWithoutRepeats ==
  /\ IsStackStatus =>
       /\ NoRepeat(Listed)
       /\ Range(Listed) \subseteq StackBranchesAtCall
  /\ IsSyncStack =>
       /\ NoRepeat(BranchesOf(Statuses))
       /\ Range(BranchesOf(Statuses)) \subseteq StackBranchesAtCall
       /\ NoRepeat(BranchesOf(Results))
       /\ Len(Results) <= Len(Statuses)

\* A getStackSyncStatus on metadata where two listed members are each
\* other's parent.
C39_Witness ==
  /\ IsStackStatus
  /\ Len(Listed) >= 2
  /\ \E x \in Range(Listed), y \in Range(Listed) :
       /\ x # y
       /\ op.pre.config.stackparent[x] = y
       /\ op.pre.config.stackparent[y] = x
====
